---- MODULE Spec2Model ----
(***************************************************************************)
(* Snapshot-diff and retention engine of missing-media-scripts:            *)
(* generate_media_list.py, generate_missing_media_list.py, manage_files.py *)
(* and the GUI / headless drivers of media_manager_gui.py.                 *)
(*                                                                         *)
(* A Python str is a sequence of one-character strings.  A file of an      *)
(* output category is a record [dir, prefix, stamp, ext, mtime, content];  *)
(* its name is <prefix>_<stamp>.<ext> and its content is the text written. *)
(***************************************************************************)
EXTENDS Integers, Sequences, FiniteSets, TLC

VARIABLES clock, cat_dirs, disk, last, threads

vars == <<clock, cat_dirs, disk, last, threads>>

(***************************************************************************)
(* Bounds                                                                  *)
(***************************************************************************)
\* last wall-clock second at which an operation may read the clock
MaxClock == 1
\* largest retention count tried (the smallest is -1)
MaxKeep == 3
\* longest file name enumerated over the validator's alphabet
MaxNameLen == 3
\* most worker threads of the GUI alive at a time
MaxThreads == 2

(***************************************************************************)
(* Python str helpers                                                      *)
(***************************************************************************)
NL == "\n"

CR == "\r"

FF == "\f"

TAB == "\t"

Min(a, b) == IF a < b THEN a ELSE b

Max(a, b) == IF a > b THEN a ELSE b

Range(s) == {s[i] : i \in 1..Len(s)}

LowerLetters ==
    << "a", "b", "c", "d", "e", "f", "g", "h", "i", "j", "k", "l", "m",
       "n", "o", "p", "q", "r", "s", "t", "u", "v", "w", "x", "y", "z" >>

UpperLetters ==
    << "A", "B", "C", "D", "E", "F", "G", "H", "I", "J", "K", "L", "M",
       "N", "O", "P", "Q", "R", "S", "T", "U", "V", "W", "X", "Y", "Z" >>

\* str.lower() on one character
LowerChar(c) ==
    IF \E i \in 1..26 : UpperLetters[i] = c
    THEN LowerLetters[CHOOSE i \in 1..26 : UpperLetters[i] = c]
    ELSE c

\* str.upper() on one character
UpperChar(c) ==
    IF \E i \in 1..26 : LowerLetters[i] = c
    THEN UpperLetters[CHOOSE i \in 1..26 : LowerLetters[i] = c]
    ELSE c

\* str.upper()
Upper(s) == [i \in 1..Len(s) |-> UpperChar(s[i])]

\* str.lower()
Lower(s) == [i \in 1..Len(s) |-> LowerChar(s[i])]

\* str.startswith(p)
StartsWith(s, p) == Len(p) <= Len(s) /\ SubSeq(s, 1, Len(p)) = p

\* str.endswith(p)
EndsWith(s, p) == Len(p) <= Len(s) /\ SubSeq(s, Len(s) - Len(p) + 1, Len(s)) = p

\* str.rfind(c) + 1: the last position of c in s, 0 if there is none
LastIndexOf(s, c) ==
    IF \E i \in 1..Len(s) : s[i] = c
    THEN CHOOSE i \in 1..Len(s) : s[i] = c /\ \A j \in (i + 1)..Len(s) : s[j] # c
    ELSE 0

\* str.split(sep) for a one-character sep: the parts between the positions
\* of sep, one part more than there are separators
Split(s, sep) ==
    LET seps == SelectSeq([i \in 1..Len(s) |-> i], LAMBDA i : s[i] = sep)
        bounds == <<0>> \o seps \o <<Len(s) + 1>>
    IN  [k \in 1..(Len(seps) + 1) |-> SubSeq(s, bounds[k] + 1, bounds[k + 1] - 1)]

\* os.path.basename(p) of posixpath
basename(p) == SubSeq(p, LastIndexOf(p, "/") + 1, Len(p))

\* os.path.splitext(p) of posixpath: <<root, ext>>; the extension starts at
\* the last dot of the last component unless only dots precede that dot
splitext(p) ==
    LET sepIndex == LastIndexOf(p, "/")
        dotIndex == LastIndexOf(p, ".")
    IN  IF dotIndex > sepIndex /\ \E i \in (sepIndex + 1)..(dotIndex - 1) : p[i] # "."
        THEN <<SubSeq(p, 1, dotIndex - 1), SubSeq(p, dotIndex, Len(p))>>
        ELSE <<p, <<>> >>

\* os.path.join(a, b) for a relative b
PathJoin(a, b) == IF a # <<>> /\ a[Len(a)] = "/" THEN a \o b ELSE a \o <<"/">> \o b

\* the characters of code points 32 to 126, in order (the grave accent, code
\* point 96, is not a character of the model's alphabet)
Ascii ==
    << " ", "!", "\"", "#", "$", "%", "&", "'", "(", ")", "*", "+",
       ",", "-", ".", "/", "0", "1", "2", "3", "4", "5", "6", "7",
       "8", "9", ":", ";", "<", "=", ">", "?", "@", "A", "B", "C",
       "D", "E", "F", "G", "H", "I", "J", "K", "L", "M", "N", "O",
       "P", "Q", "R", "S", "T", "U", "V", "W", "X", "Y", "Z", "[",
       "\\", "]", "^", "_", "grave", "a", "b", "c", "d", "e", "f", "g",
       "h", "i", "j", "k", "l", "m", "n", "o", "p", "q", "r", "s",
       "t", "u", "v", "w", "x", "y", "z", "{", "|", "}", "~" >>

\* ord() on the characters of the model's alphabet
Ord(c) ==
    CASE c = TAB -> 9
      [] c = NL -> 10
      [] c = FF -> 12
      [] c = CR -> 13
      [] OTHER -> 31 + (CHOOSE i \in 1..95 : Ascii[i] = c)

\* s < t on Python str (lexicographic on code points)
RECURSIVE StrLess(_, _)
StrLess(s, t) ==
    IF t = <<>> THEN FALSE
    ELSE IF s = <<>> THEN TRUE
    ELSE IF Ord(Head(s)) # Ord(Head(t)) THEN Ord(Head(s)) < Ord(Head(t))
    ELSE StrLess(Tail(s), Tail(t))

\* the set's elements without the sort: here from the greatest to the least
RECURSIVE SortedStrs_Descending(_)
SortedStrs_Descending(S) ==
    IF S = {} THEN <<>>
    ELSE LET m == CHOOSE x \in S : \A y \in S \ {x} : StrLess(y, x)
         IN  <<m>> \o SortedStrs_Descending(S \ {m})

\* sorted(set_of_str)
RECURSIVE SortedStrs(_)
SortedStrs(S) ==
    IF S = {} THEN <<>>
    ELSE LET m == CHOOSE x \in S : \A y \in S \ {x} : StrLess(x, y)
         IN  <<m>> \o SortedStrs(S \ {m})

\* f.write(f"{line}\n") for every line of a list, as one text
RECURSIVE WriteLines(_)
WriteLines(lines) ==
    IF lines = <<>> THEN <<>>
    ELSE Head(lines) \o <<NL>> \o WriteLines(Tail(lines))

\* the line boundaries of str.splitlines() that the model's alphabet holds
\* (the others are \v, \x1c, \x1d, \x1e, \x85, \u2028 and \u2029)
LineBoundaries == {NL, CR, FF}

\* str.splitlines(): the lines without their boundaries, "\r\n" being one
\* boundary; cur is the line read so far
RECURSIVE SplitLinesFrom(_, _)
SplitLinesFrom(text, cur) ==
    IF text = <<>> THEN (IF cur = <<>> THEN <<>> ELSE <<cur>>)
    ELSE IF Head(text) = CR /\ Len(text) >= 2 /\ text[2] = NL
         THEN <<cur>> \o SplitLinesFrom(Tail(Tail(text)), <<>>)
    ELSE IF Head(text) \in LineBoundaries
         THEN <<cur>> \o SplitLinesFrom(Tail(text), <<>>)
         ELSE SplitLinesFrom(Tail(text), Append(cur, Head(text)))

SplitLines(text) == SplitLinesFrom(text, <<>>)

\* what f.read() returns for a file opened in text mode with the default
\* newline=None: "\r\n" and "\r" are translated to "\n"
RECURSIVE ReadText(_)
ReadText(content) ==
    IF content = <<>> THEN <<>>
    ELSE IF Head(content) = CR /\ Len(content) >= 2 /\ content[2] = NL
         THEN <<NL>> \o ReadText(Tail(Tail(content)))
    ELSE IF Head(content) = CR THEN <<NL>> \o ReadText(Tail(content))
    ELSE <<Head(content)>> \o ReadText(Tail(content))

\* the lines "for line in f" yields: each ends with its "\n", the last one
\* may lack it
RECURSIVE IterLinesFrom(_, _)
IterLinesFrom(text, cur) ==
    IF text = <<>> THEN (IF cur = <<>> THEN <<>> ELSE <<cur>>)
    ELSE IF Head(text) = NL
         THEN <<Append(cur, NL)>> \o IterLinesFrom(Tail(text), <<>>)
         ELSE IterLinesFrom(Tail(text), Append(cur, Head(text)))

IterLines(content) == IterLinesFrom(ReadText(content), <<>>)

\* the characters str.strip() removes, of the model's alphabet
Whitespace == {" ", TAB, NL, CR, FF}

\* str.lstrip(chars)
RECURSIVE LStrip(_, _)
LStrip(s, chars) ==
    IF s # <<>> /\ Head(s) \in chars THEN LStrip(Tail(s), chars) ELSE s

\* str.rstrip(chars)
RECURSIVE RStrip(_, _)
RStrip(s, chars) ==
    IF s # <<>> /\ s[Len(s)] \in chars
    THEN RStrip(SubSeq(s, 1, Len(s) - 1), chars)
    ELSE s

\* str.strip(chars)
StripChars(s, chars) == RStrip(LStrip(s, chars), chars)

\* str.strip()
Strip(s) == StripChars(s, Whitespace)

\* list[k + 1:] written for list[k:]
PySliceFrom_OffByOne(s, k) ==
    IF k >= 0 THEN SubSeq(s, k + 2, Len(s))
    ELSE SubSeq(s, Max(Len(s) + k, 0) + 1, Len(s))

\* list[k:] with Python's meaning of a negative k
PySliceFrom(s, k) ==
    IF k >= 0 THEN SubSeq(s, k + 1, Len(s))
    ELSE SubSeq(s, Max(Len(s) + k, 0) + 1, Len(s))

(***************************************************************************)
(* Output directory: categories, file names, glob, modification times      *)
(***************************************************************************)
\* subdirs = ["media_lists", "missing_media", "filename_issues"]
Subdirs == <<"media_lists", "missing_media", "filename_issues">>

Categories == Range(Subdirs)

\* "*.txt", the default file_pattern of manage_files
PatTxt == [prefix |-> "*", ext |-> "txt"]

\* 'media_list_*.txt'
PatMediaList == [prefix |-> "media_list", ext |-> "txt"]

\* a pattern that matches every file of the directory
GlobMatch_AnyFile(f, pattern) == TRUE

\* fnmatch of the name <prefix>_<stamp>.<ext> against <prefix>_*.<ext> or *.<ext>
GlobMatch(f, pattern) ==
    /\ pattern.prefix = "*" \/ f.prefix = pattern.prefix
    /\ f.ext = pattern.ext

\* glob.glob(os.path.join(directory, pattern)); empty when the directory is absent
Glob(fs, directory, pattern) ==
    {f \in fs : f.dir = directory /\ GlobMatch(f, pattern)}

\* the sort without reverse=True: oldest first
RECURSIVE SortedByMtime_Ascending(_)
SortedByMtime_Ascending(S) ==
    IF S = {} THEN {<<>>}
    ELSE UNION { { <<f>> \o t : t \in SortedByMtime_Ascending(S \ {f}) } :
                 f \in {g \in S : \A h \in S : g.mtime <= h.mtime} }

\* sorted(S, key=os.path.getmtime, reverse=True): every order the sort can
\* return, glob's order of files with equal modification times being arbitrary
RECURSIVE SortedByMtime(_)
SortedByMtime(S) ==
    IF S = {} THEN {<<>>}
    ELSE UNION { { <<f>> \o t : t \in SortedByMtime(S \ {f}) } :
                 f \in {g \in S : \A h \in S : h.mtime <= g.mtime} }

SameName(f, g) ==
    f.dir = g.dir /\ f.prefix = g.prefix /\ f.stamp = g.stamp /\ f.ext = g.ext

\* open(path, 'a'): the text is appended to the file of that name
WriteFile_Append(fs, f) ==
    {g \in fs : ~SameName(g, f)}
        \cup {[f EXCEPT !.content = (IF \E g \in fs : SameName(g, f)
                                      THEN (CHOOSE g \in fs : SameName(g, f)).content
                                      ELSE <<>>) \o f.content]}

\* open(path, 'w') ... close: the file of that name is replaced
WriteFile(fs, f) == {g \in fs : ~SameName(g, f)} \cup {f}

(***************************************************************************)
(* manage_files.py                                                         *)
(***************************************************************************)
\* the loop with the try around the for: the first failure ends the batch
RECURSIVE DeleteLoop_AbortOnFailure(_, _, _)
DeleteLoop_AbortOnFailure(files_to_delete, failing, acc) ==
    IF files_to_delete = <<>> THEN acc
    ELSE LET file_path == Head(files_to_delete)
             tried == [acc EXCEPT !.attempted = Append(@, file_path)]
         IN  IF file_path \in failing
             THEN tried
             ELSE DeleteLoop_AbortOnFailure(Tail(files_to_delete), failing,
                             [tried EXCEPT !.deleted = @ + 1,
                                           !.removed = @ \cup {file_path}])

\* for file_path in files_to_delete: try: os.remove(...); files_deleted += 1
\* except Exception: print(...)
RECURSIVE DeleteLoop(_, _, _)
DeleteLoop(files_to_delete, failing, acc) ==
    IF files_to_delete = <<>> THEN acc
    ELSE LET file_path == Head(files_to_delete)
             tried == [acc EXCEPT !.attempted = Append(@, file_path)]
         IN  IF file_path \in failing
             THEN DeleteLoop(Tail(files_to_delete), failing, tried)
             ELSE DeleteLoop(Tail(files_to_delete), failing,
                             [tried EXCEPT !.deleted = @ + 1,
                                           !.removed = @ \cup {file_path}])

\* os.path.exists is not consulted: every directory is taken to exist
DirectoryExists_Unchecked(ds, directory) == TRUE

\* os.path.exists(directory)
DirectoryExists(ds, directory) == directory \in ds

\* manage_files(directory, retention_count, file_pattern), given the sorted
\* listing of line 49 and the files whose os.remove raises
manage_files(ds, directory, retention_count, file_pattern, listing, failing) ==
    IF ~DirectoryExists(ds, directory)
    THEN [dir |-> directory, keep |-> retention_count, pattern |-> file_pattern,
          listing |-> <<>>, failing |-> failing, attempted |-> <<>>,
          removed |-> {}, kept |-> 0, deleted |-> 0, err |-> TRUE]
    ELSE LET files_kept == Min(Len(listing), retention_count)
             files_to_delete ==
                 IF Len(listing) > retention_count
                 THEN PySliceFrom(listing, retention_count)
                 ELSE <<>>
             loop == DeleteLoop(files_to_delete, failing,
                                [attempted |-> <<>>, deleted |-> 0, removed |-> {}])
         IN  [dir |-> directory, keep |-> retention_count, pattern |-> file_pattern,
              listing |-> listing, failing |-> failing,
              attempted |-> loop.attempted, removed |-> loop.removed,
              kept |-> files_kept, deleted |-> loop.deleted, err |-> FALSE]

(***************************************************************************)
(* Scanned media tree (the input of os.walk)                               *)
(***************************************************************************)
DirM == <<"/", "m">>

NameS == <<"s">>

NameH == <<".", "h">>

NameG == <<".", "g">>

DirS == PathJoin(DirM, NameS)

DirH == PathJoin(DirM, NameH)

DirG == PathJoin(DirS, NameG)

DirX == <<"/", "x">>

FileA == <<"a", ".", "m", "p", "4">>

FileB == <<"b", ".", "M", "K", "V">>

FileC == <<"c", ".", "m", "p", "4">>

FileD == <<"d", ".", "m", "p", "4">>

FileN == <<"n", ".", "t", "x", "t">>

\* directory -> its sub-directories and the file names it may hold, in listing order
Tree ==
    (DirM :> [dirs |-> <<NameS, NameH>>, files |-> <<FileA, FileN>>]) @@
    (DirS :> [dirs |-> <<NameG>>, files |-> <<FileB>>]) @@
    (DirH :> [dirs |-> <<>>, files |-> <<FileC>>]) @@
    (DirG :> [dirs |-> <<>>, files |-> <<FileD>>])

\* every file the tree may hold, by full path
MediaUniverse ==
    UNION { {PathJoin(d, Tree[d].files[i]) : i \in 1..Len(Tree[d].files)} : d \in DOMAIN Tree }

\* the scan_directories lists tried: one root, the same root twice, a root
\* nested in another, a hidden directory as root, a root that does not exist,
\* no root
RootLists == { <<DirM>>, <<DirM, DirM>>, <<DirM, DirS>>, <<DirH>>, <<DirX>>, <<>> }

\* ['.mp4', '.mkv', '.avi']
DefaultExtensions ==
    << <<".", "m", "p", "4">>, <<".", "m", "k", "v">>, <<".", "a", "v", "i">> >>

\* the configured extension lists tried: the default, '.MP4' as typed in the
\* settings tab, '.mkv' alone
ExtensionLists ==
    { DefaultExtensions, << <<".", "M", "P", "4">> >>, << <<".", "m", "k", "v">> >> }

(***************************************************************************)
(* generate_media_list.py                                                  *)
(***************************************************************************)
\* str.endswith(tuple)
EndsWithAny(s, suffixes) == \E i \in 1..Len(suffixes) : EndsWith(s, suffixes[i])

\* for root, dirs, files in os.walk(directory, topdown=True): prune hidden
\* directories, collect the files whose lowered name ends with an extension
RECURSIVE Walk(_, _, _)
RECURSIVE WalkDirs(_, _, _, _)
\* dirs = [...] for dirs[:] = [...]: os.walk descends into every directory
Walk_NoPrune(root, present, file_extensions) ==
    IF root \notin DOMAIN Tree THEN <<>>
    ELSE LET files == SelectSeq(Tree[root].files,
                                LAMBDA file : PathJoin(root, file) \in present)
             media == SelectSeq(files,
                                LAMBDA file : EndsWithAny(Lower(file), file_extensions))
         IN  [i \in 1..Len(media) |-> PathJoin(root, media[i])]
             \o WalkDirs(root, Tree[root].dirs, present, file_extensions)

Walk(root, present, file_extensions) ==
    IF root \notin DOMAIN Tree THEN <<>>
    ELSE LET dirs  == SelectSeq(Tree[root].dirs, LAMBDA d : ~StartsWith(d, <<".">>))
             files == SelectSeq(Tree[root].files,
                                LAMBDA file : PathJoin(root, file) \in present)
             media == SelectSeq(files,
                                LAMBDA file : EndsWithAny(Lower(file), file_extensions))
         IN  [i \in 1..Len(media) |-> PathJoin(root, media[i])]
             \o WalkDirs(root, dirs, present, file_extensions)

WalkDirs(root, dirs, present, file_extensions) ==
    IF dirs = <<>> THEN <<>>
    ELSE Walk(PathJoin(root, Head(dirs)), present, file_extensions)
         \o WalkDirs(root, Tail(dirs), present, file_extensions)

\* media_files of generate_media_list: the walks of the directories, in order
RECURSIVE ScanMediaFiles(_, _, _)
ScanMediaFiles(directories, present, file_extensions) ==
    IF directories = <<>> THEN <<>>
    ELSE Walk(Head(directories), present, file_extensions)
         \o ScanMediaFiles(Tail(directories), present, file_extensions)

\* generate_media_list(directories, output_file, file_extensions): the text
\* written to output_file
generate_media_list(directories, present, file_extensions) ==
    WriteLines(ScanMediaFiles(directories, present, file_extensions))

(***************************************************************************)
(* generate_missing_media_list.py and the check-missing operations         *)
(***************************************************************************)
\* Python's None where a file path is expected
None == [dir |-> "", prefix |-> "", stamp |-> 0, ext |-> "", mtime |-> 0,
         content |-> <<>>]

\* find_two_most_recent_media_lists, given the sorted listing of its first line
\* the listing sorted without reverse=True: the two oldest files
find_two_most_recent_media_lists_Oldest(listing) ==
    IF Len(listing) < 2 THEN <<None, None>>
    ELSE <<listing[Len(listing)], listing[Len(listing) - 1]>>

find_two_most_recent_media_lists(listing) ==
    IF Len(listing) < 2 THEN <<None, None>>
    ELSE <<listing[1], listing[2]>>

\* set(f.readlines()): the lines with their line ends
load_titles_from_file_KeepEnds(file) == Range(IterLines(file.content))

\* set(f.read().splitlines()); the snapshot files of the model are readable
load_titles_from_file(file) == Range(SplitLines(ReadText(file.content)))

\* validate_from_file: file_list = [line.strip() for line in f if line.strip()]
file_list_of(file) ==
    LET stripped == [i \in 1..Len(IterLines(file.content)) |->
                        Strip(IterLines(file.content)[i])]
    IN  SelectSeq(stripped, LAMBDA line : line # <<>>)

\* the operands of the difference exchanged
missing_titles_of_Reversed(second_recent_titles, most_recent_titles) ==
    most_recent_titles \ second_recent_titles

\* missing_titles = second_most_recent_titles - most_recent_titles
missing_titles_of(second_recent_titles, most_recent_titles) ==
    second_recent_titles \ most_recent_titles

\* what the disk holds under the name of file f: <<text>>, or <<>> if absent
ReadBack(fs, f) ==
    IF \E g \in fs : SameName(g, f)
    THEN <<(CHOOSE g \in fs : SameName(g, f)).content>>
    ELSE <<>>

\* a write whose exception is swallowed: the caller goes on as if it was written
WriteReport_SwallowFailure(fs, ds, file, missing_titles, wmode, cut) ==
    LET lines == SortedStrs(missing_titles)
        part  == SubSeq(lines, 1, Min(cut, Len(lines) - 1))
    IN  CASE wmode = "mkdir_fail" ->
               [disk |-> fs, cat_dirs |-> ds, written |-> TRUE]
          [] wmode = "open_fail" ->
               [disk |-> fs, cat_dirs |-> ds \cup {file.dir}, written |-> TRUE]
          [] wmode = "write_fail" ->
               [disk |-> WriteFile(fs, [file EXCEPT !.content = WriteLines(part)]),
                cat_dirs |-> ds \cup {file.dir}, written |-> TRUE]
          [] OTHER ->
               [disk |-> WriteFile(fs, [file EXCEPT !.content = WriteLines(lines)]),
                cat_dirs |-> ds \cup {file.dir}, written |-> TRUE]

\* os.makedirs(dir, exist_ok=True); with open(file, 'w') as f:
\*     for title in sorted(missing_titles): f.write(f"{title}\n")
\* wmode says which call raises, cut how many lines a failing write leaves
WriteReport(fs, ds, file, missing_titles, wmode, cut) ==
    LET lines == SortedStrs(missing_titles)
        part  == SubSeq(lines, 1, Min(cut, Len(lines) - 1))
    IN  CASE wmode = "mkdir_fail" ->
               [disk |-> fs, cat_dirs |-> ds, written |-> FALSE]
          [] wmode = "open_fail" ->
               [disk |-> fs, cat_dirs |-> ds \cup {file.dir}, written |-> FALSE]
          [] wmode = "write_fail" ->
               [disk |-> WriteFile(fs, [file EXCEPT !.content = WriteLines(part)]),
                cat_dirs |-> ds \cup {file.dir}, written |-> FALSE]
          [] OTHER ->
               [disk |-> WriteFile(fs, [file EXCEPT !.content = WriteLines(lines)]),
                cat_dirs |-> ds \cup {file.dir}, written |-> TRUE]

PersistEvent(fs, file, titles) ==
    [ev |-> "persist", titles |-> titles, on_disk |-> ReadBack(fs, file)]

\* send_missing_media_email: the lines of the body after its header,
\* '\n'.join(sorted(missing_titles))
email_body_lines(missing_titles) == SortedStrs(missing_titles)

\* send_missing_media_email(missing_titles, ...) is called; on_disk is the
\* report file as it is on disk at the moment of the call
NotifyEvent(fs, file, titles) ==
    [ev |-> "notify", titles |-> titles, on_disk |-> ReadBack(fs, file),
     body_lines |-> email_body_lines(titles)]

\* the result of a check-missing operation: its return value, the disk it
\* leaves, the two files it compared, the missing set, whether the report was
\* written ("none": no report was due), the persist and notify calls in order
Outcome(ok, fs, ds, pair, loaded, missing, persisted, events) ==
    [ok |-> ok, disk |-> fs, cat_dirs |-> ds, most_recent |-> pair[1],
     second |-> pair[2], loaded |-> loaded, missing |-> missing,
     persisted |-> persisted, events |-> events]

\* generate_missing_media_list(media_list_dir, output_file)
generate_missing_media_list(fs, ds, listing, output_file, wmode, cut) ==
    LET pair == find_two_most_recent_media_lists(listing)
        most_recent_file == pair[1]
        second_most_recent_file == pair[2]
        most_recent_titles == load_titles_from_file(most_recent_file)
        second_most_recent_titles == load_titles_from_file(second_most_recent_file)
        missing_titles ==
            missing_titles_of(second_most_recent_titles, most_recent_titles)
        w == WriteReport(fs, ds, output_file, missing_titles, wmode, cut)
    IN  IF most_recent_file = None \/ second_most_recent_file = None
        THEN Outcome(FALSE, fs, ds, pair, FALSE, {}, "none", <<>>)
        ELSE IF most_recent_titles = {} /\ second_most_recent_titles = {}
        THEN Outcome(FALSE, fs, ds, pair, TRUE, {}, "none", <<>>)
        ELSE IF missing_titles # {}
        THEN IF w.written
             THEN Outcome(TRUE, w.disk, w.cat_dirs, pair, TRUE, missing_titles, "done",
                          << PersistEvent(w.disk, output_file, missing_titles),
                             NotifyEvent(w.disk, output_file, missing_titles) >>)
             ELSE Outcome(FALSE, w.disk, w.cat_dirs, pair, TRUE, missing_titles, "failed",
                          <<>>)
        ELSE Outcome(TRUE, fs, ds, pair, TRUE, {}, "none", <<>>)

\* MediaManagerGUI.check_missing_media; ok = no error was logged
check_missing_media(fs, ds, listing, missing_file, wmode, cut, email_configured) ==
    LET pair == find_two_most_recent_media_lists(listing)
        most_recent == pair[1]
        second_recent == pair[2]
        most_recent_titles == load_titles_from_file(most_recent)
        second_recent_titles == load_titles_from_file(second_recent)
        missing_titles == missing_titles_of(second_recent_titles, most_recent_titles)
        w == WriteReport(fs, ds, missing_file, missing_titles, wmode, cut)
    IN  IF most_recent = None \/ second_recent = None
        THEN Outcome(FALSE, fs, ds, pair, FALSE, {}, "none", <<>>)
        ELSE IF missing_titles # {}
        THEN IF w.written
             THEN Outcome(TRUE, w.disk, w.cat_dirs, pair, TRUE, missing_titles, "done",
                          << PersistEvent(w.disk, missing_file, missing_titles) >>
                          \o (IF email_configured
                              THEN << NotifyEvent(w.disk, missing_file, missing_titles) >>
                              ELSE <<>>))
             ELSE Outcome(FALSE, w.disk, w.cat_dirs, pair, TRUE, missing_titles, "failed",
                          <<>>)
        ELSE Outcome(TRUE, fs, ds, pair, TRUE, {}, "none", <<>>)

\* run_headless_check_missing_media(config, log_function)
run_headless_check_missing_media(fs, ds, listing, missing_file, wmode, cut, email) ==
    LET pair == find_two_most_recent_media_lists(listing)
        most_recent == pair[1]
        second_recent == pair[2]
        most_recent_titles == load_titles_from_file(most_recent)
        second_recent_titles == load_titles_from_file(second_recent)
        missing_titles == missing_titles_of(second_recent_titles, most_recent_titles)
        w == WriteReport(fs, ds, missing_file, missing_titles, wmode, cut)
    IN  IF most_recent = None \/ second_recent = None
        THEN Outcome(FALSE, fs, ds, pair, FALSE, {}, "none", <<>>)
        ELSE IF missing_titles # {}
        THEN IF w.written
             THEN Outcome(TRUE, w.disk, w.cat_dirs, pair, TRUE, missing_titles, "done",
                          << PersistEvent(w.disk, missing_file, missing_titles) >>
                          \o (IF email
                              THEN << NotifyEvent(w.disk, missing_file, missing_titles) >>
                              ELSE <<>>))
             ELSE Outcome(FALSE, w.disk, w.cat_dirs, pair, TRUE, missing_titles, "failed",
                          <<>>)
        ELSE Outcome(TRUE, fs, ds, pair, TRUE, {}, "none", <<>>)

(***************************************************************************)
(* windows_filename_validator.py (os.sep and os.path are those of POSIX)   *)
(***************************************************************************)
\* INVALID_CHARS = set('<>:"|?*\\/')
INVALID_CHARS == {"<", ">", ":", "\"", "|", "?", "*", "\\", "/"}

\* RESERVED_NAMES
RESERVED_NAMES ==
    { <<"C", "O", "N">>, <<"P", "R", "N">>, <<"A", "U", "X">>, <<"N", "U", "L">> }
    \cup { <<"C", "O", "M", d>> : d \in {"1", "2", "3", "4", "5", "6", "7", "8", "9"} }
    \cup { <<"L", "P", "T", d>> : d \in {"1", "2", "3", "4", "5", "6", "7", "8", "9"} }

MAX_FILENAME_LENGTH == 255

MAX_PATH_LENGTH == 260

\* an entry of the issues list: the rule it reports and the detail its
\* message cites (offending characters, reserved name or path component,
\* length)
Issue(rule, chars, text, n) == [rule |-> rule, chars |-> chars, text |-> text, n |-> n]

\* "Contains invalid characters: ..."
invalid_chars_check(filename) ==
    LET invalid_chars_found == Range(filename) \cap INVALID_CHARS
    IN  IF invalid_chars_found # {}
        THEN <<Issue("invalid_chars", invalid_chars_found, <<>>, 0)>>
        ELSE <<>>

\* "Contains control characters (ASCII 0-31)"
control_chars_check(filename) ==
    IF \E i \in 1..Len(filename) : Ord(filename[i]) < 32
    THEN <<Issue("control_chars", {}, <<>>, 0)>>
    ELSE <<>>

\* "Filename ends with period or space"
trailing_check(filename) ==
    LET name_without_ext == splitext(filename)[1]
    IN  IF \/ EndsWith(filename, <<".">>) \/ EndsWith(filename, <<" ">>)
           \/ EndsWith(name_without_ext, <<" ">>)
           \/ EndsWith(name_without_ext, <<".">>)
        THEN <<Issue("trailing", {}, <<>>, 0)>>
        ELSE <<>>

\* "Uses reserved Windows name: ..."
reserved_check(filename) ==
    LET name_without_ext == Upper(splitext(filename)[1])
    IN  IF name_without_ext \in RESERVED_NAMES
        THEN <<Issue("reserved", {}, name_without_ext, 0)>>
        ELSE <<>>

\* "Filename too long (...)"
filename_length_check(filename) ==
    IF Len(filename) > MAX_FILENAME_LENGTH
    THEN <<Issue("name_too_long", {}, <<>>, Len(filename))>>
    ELSE <<>>

\* "Full path too long (...)"
path_length_check(filepath) ==
    IF Len(filepath) > MAX_PATH_LENGTH
    THEN <<Issue("path_too_long", {}, <<>>, Len(filepath))>>
    ELSE <<>>

\* "Path component has leading/trailing spaces: '...'", one per component
path_parts_check(filepath) ==
    LET path_parts == Split(filepath, "/")
        padded == SelectSeq(path_parts, LAMBDA part : part # Strip(part))
    IN  [i \in 1..Len(padded) |-> Issue("padded_part", {}, padded[i], 0)]

\* the checks in the order of validate_filename
AllChecks(filepath) ==
    LET filename == basename(filepath)
    IN  << invalid_chars_check(filename), control_chars_check(filename),
           trailing_check(filename), reserved_check(filename),
           filename_length_check(filename), path_length_check(filepath),
           path_parts_check(filepath) >>

\* a validator that returns at the first rule that fires
validate_filename_ShortCircuit(filepath) ==
    LET checks == AllChecks(filepath)
        fired == {i \in 1..7 : checks[i] # <<>>}
    IN  IF fired = {} THEN <<>>
        ELSE checks[CHOOSE i \in fired : \A j \in fired : i <= j]

\* validate_filename(filepath): the issues list
validate_filename(filepath) ==
    LET checks == AllChecks(filepath)
    IN  checks[1] \o checks[2] \o checks[3] \o checks[4] \o checks[5]
        \o checks[6] \o checks[7]

\* the keys of a dict that is assigned the entries of keys in order: each
\* key at the place of its first assignment
RECURSIVE InsertionOrder(_)
InsertionOrder(keys) ==
    IF keys = <<>> THEN <<>>
    ELSE LET before == InsertionOrder(SubSeq(keys, 1, Len(keys) - 1))
         IN  IF keys[Len(keys)] \in Range(before) THEN before
             ELSE Append(before, keys[Len(keys)])

\* validate_file_list(file_list): the keys of results, in insertion order,
\* and the issues of each key
validate_file_list(file_list) ==
    LET flagged == InsertionOrder(
            SelectSeq(file_list, LAMBDA filepath : validate_filename(filepath) # <<>>))
    IN  [i \in 1..Len(flagged) |->
            [filepath |-> flagged[i], issues |-> validate_filename(flagged[i])]]

\* str.replace(c, '_') for every c of INVALID_CHARS
ReplaceInvalid(filename) ==
    [i \in 1..Len(filename) |->
        IF filename[i] \in INVALID_CHARS THEN "_" ELSE filename[i]]

\* ''.join(char for char in filename if ord(char) >= 32)
RemoveControl(filename) == SelectSeq(filename, LAMBDA char : Ord(char) >= 32)

\* name_part.rstrip('. ') + ext_part
StripNamePart(filename) ==
    RStrip(splitext(filename)[1], {".", " "}) \o splitext(filename)[2]

\* f"{name_part}_file{ext_part}" when the upper-cased name part is reserved
SuffixReserved(filename) ==
    IF Upper(splitext(filename)[1]) \in RESERVED_NAMES
    THEN splitext(filename)[1] \o <<"_", "f", "i", "l", "e">> \o splitext(filename)[2]
    ELSE filename

\* list[:k] with Python's meaning of a negative k
PySliceTo(s, k) ==
    IF k >= 0 THEN SubSeq(s, 1, Min(k, Len(s)))
    ELSE SubSeq(s, 1, Max(Len(s) + k, 0))

\* name_part[:MAX_FILENAME_LENGTH - len(ext_part)] + ext_part when too long
Truncate(filename) ==
    IF Len(filename) > MAX_FILENAME_LENGTH
    THEN PySliceTo(splitext(filename)[1],
                   MAX_FILENAME_LENGTH - Len(splitext(filename)[2]))
         \o splitext(filename)[2]
    ELSE filename

\* the place of position i in its run of underscores, counted from 1
RunOffset(s, i) ==
    IF \E j \in 1..(i - 1) : s[j] # "_"
    THEN i - (CHOOSE j \in 1..(i - 1) :
                  s[j] # "_" /\ \A h \in (j + 1)..(i - 1) : s[h] = "_")
    ELSE i

\* str.replace('__', '_'): the occurrences from left to right, not
\* overlapping, so the second underscore of each pair of a run is dropped
ReplaceDouble(s) ==
    LET kept == SelectSeq([i \in 1..Len(s) |-> i],
                          LAMBDA i : s[i] # "_" \/ RunOffset(s, i) % 2 = 1)
    IN  [k \in 1..Len(kept) |-> s[kept[k]]]

\* while '__' in filename: filename = filename.replace('__', '_')
RECURSIVE CollapseUnderscores(_)
CollapseUnderscores(filename) ==
    IF \E i \in 1..(Len(filename) - 1) : filename[i] = "_" /\ filename[i + 1] = "_"
    THEN CollapseUnderscores(ReplaceDouble(filename))
    ELSE filename

\* name_part.strip('_') + ext_part
StripUnderscores(filename) ==
    StripChars(splitext(filename)[1], {"_"}) \o splitext(filename)[2]

\* the pipeline without the suffix for reserved names
suggest_filename_fix_NoSuffix(filepath) ==
    LET original_filename == basename(filepath)
        filename ==
            StripUnderscores(CollapseUnderscores(Truncate(
                StripNamePart(RemoveControl(ReplaceInvalid(original_filename))))))
    IN  IF filename # original_filename THEN <<filename>> ELSE <<>>

\* the file name reassembled after the reserved-name step
Reassembled(filepath) ==
    SuffixReserved(StripNamePart(RemoveControl(ReplaceInvalid(basename(filepath)))))

\* suggest_filename_fix(filepath): <<filename>>, or <<>> for None
suggest_filename_fix(filepath) ==
    LET original_filename == basename(filepath)
        filename ==
            StripUnderscores(CollapseUnderscores(Truncate(SuffixReserved(
                StripNamePart(RemoveControl(ReplaceInvalid(original_filename)))))))
    IN  IF filename # original_filename THEN <<filename>> ELSE <<>>

\* The characters of the report that are not ASCII are written by their
\* names; a literal of the source is one element of the text.
\* U+2705
CheckMark == "(white heavy check mark)"

\* U+274C
CrossMark == "(cross mark)"

\* U+1F4C1
FileFolder == "(file folder)"

\* U+2022
Bullet == "(bullet)"

\* U+1F4DD
Memo == "(memo)"

\* the orders in which a set of characters may be iterated
Orders(S) == {order \in [1..Cardinality(S) -> S] : Range(order) = S}

\* ', '.join(strs) for a list of characters
RECURSIVE JoinComma(_)
JoinComma(strs) ==
    IF Len(strs) <= 1 THEN strs
    ELSE <<Head(strs), ",", " ">> \o JoinComma(Tail(strs))

\* the texts of an entry of the issues list, lines 68 to 97; the invalid
\* characters are joined in the order of iteration of a set, which is any order
IssueTexts(issue) ==
    CASE issue.rule = "invalid_chars" ->
           { <<"Contains invalid characters: ">> \o JoinComma(order) :
                 order \in Orders(issue.chars) }
      [] issue.rule = "control_chars" ->
           { <<"Contains control characters (ASCII 0-31)">> }
      [] issue.rule = "trailing" ->
           { <<"Filename ends with period or space">> }
      [] issue.rule = "reserved" ->
           { <<"Uses reserved Windows name: ">> \o issue.text }
      [] issue.rule = "name_too_long" ->
           { <<"Filename too long (", ToString(issue.n), " > ",
               ToString(MAX_FILENAME_LENGTH), " characters)">> }
      [] issue.rule = "path_too_long" ->
           { <<"Full path too long (", ToString(issue.n), " > ",
               ToString(MAX_PATH_LENGTH), " characters)">> }
      [] OTHER ->
           { <<"Path component has leading/trailing spaces: '">> \o issue.text
                 \o <<"'">> }

\* for issue in issues: report += f"   (bullet) {issue}\n"
RECURSIVE IssueLines(_)
IssueLines(issues) ==
    IF issues = <<>> THEN {<<>>}
    ELSE { <<"   ", Bullet, " ">> \o text \o <<NL>> \o rest :
               text \in IssueTexts(Head(issues)), rest \in IssueLines(Tail(issues)) }

\* for filepath, issues in validation_results.items(): the block of each path
RECURSIVE Blocks(_)
Blocks(validation_results) ==
    IF validation_results = <<>> THEN {<<>>}
    ELSE { <<FileFolder, " ">> \o Head(validation_results).filepath \o <<NL>>
               \o lines \o <<NL>> \o rest :
               lines \in IssueLines(Head(validation_results).issues),
               rest \in Blocks(Tail(validation_results)) }

\* the lines after the blocks
CommonFixes ==
    << NL, Memo, " Common fixes:", NL,
       Bullet, " Remove or replace invalid characters: < > : \" | ? * \\ /", NL,
       Bullet, " Rename files that use reserved Windows names (CON, PRN, AUX, etc.)", NL,
       Bullet, " Remove trailing periods and spaces from filenames", NL,
       Bullet, " Shorten very long filenames or paths", NL,
       Bullet, " Remove leading/trailing spaces from directory names", NL >>

\* generate_report(validation_results): the report texts it may return, one
\* for each order of iteration of the sets of invalid characters
generate_report(validation_results) ==
    IF validation_results = <<>>
    THEN { <<CheckMark, " No Windows filename compatibility issues found!", NL>> }
    ELSE { <<CrossMark, " Found ", ToString(Len(validation_results)),
             " files with Windows naming issues:", NL, NL>> \o blocks \o CommonFixes :
               blocks \in Blocks(validation_results) }

\* a report that is written next to the snapshot it is about
WriteText_InSnapshotDir(fs, file, text, wmode, cut) ==
    [disk |-> WriteFile(fs, [file EXCEPT !.dir = "media_lists", !.content = text]),
     written |-> TRUE]

\* generate_report, lines 218 to 223: with open(output_file, 'w') as f:
\* f.write(report); wmode says which call raises, cut how much of the text a
\* failing write leaves
WriteText(fs, file, text, wmode, cut) ==
    LET part == SubSeq(text, 1, Min(cut, Len(text) - 1))
    IN  CASE wmode = "open_fail" ->
               [disk |-> fs, written |-> FALSE]
          [] wmode = "write_fail" ->
               [disk |-> WriteFile(fs, [file EXCEPT !.content = part]),
                written |-> FALSE]
          [] OTHER ->
               [disk |-> WriteFile(fs, [file EXCEPT !.content = text]),
                written |-> TRUE]

\* the result of a check-filenames operation: its return value, the disk it
\* leaves, the snapshot it analyzed, the validation results, whether the
\* report was written ("none": no report was due)
FilenamesOutcome(ok, fs, ds, analyzed, results, written) ==
    [ok |-> ok, disk |-> fs, cat_dirs |-> ds, analyzed |-> analyzed,
     results |-> results, written |-> written]

\* run_headless_check_windows_filenames(config, log_function): the outcomes
\* it may have, one for each text generate_report may return
run_headless_check_windows_filenames(fs, ds, listing, report_file, wmode, cut) ==
    IF listing = <<>>
    THEN { FilenamesOutcome(FALSE, fs, ds, None, <<>>, "none") }
    ELSE LET most_recent_file == listing[1]
             validation_results == validate_file_list(file_list_of(most_recent_file))
         IN  IF validation_results # <<>>
             THEN IF wmode = "mkdir_fail"
                  THEN { FilenamesOutcome(FALSE, fs, ds, most_recent_file,
                                          validation_results, "failed") }
                  ELSE { LET w == WriteText(fs, report_file, report, wmode, cut)
                         IN  FilenamesOutcome(w.written, w.disk,
                                              ds \cup {report_file.dir}, most_recent_file,
                                              validation_results,
                                              IF w.written THEN "done" ELSE "failed") :
                             report \in generate_report(validation_results) }
             ELSE { FilenamesOutcome(TRUE, fs, ds, most_recent_file, <<>>, "none") }

\* windows_filename_validator.py main() with -i input_file and, if output is
\* <<file>>, -o file: ok = no exception reached main; the input file None is
\* a path that does not exist, and the directory of the output file is not
\* created
validator_main(fs, ds, input_file, output, wmode, cut) ==
    IF input_file = None
    THEN { FilenamesOutcome(FALSE, fs, ds, None, <<>>, "none") }
    ELSE LET results == validate_file_list(file_list_of(input_file))
         IN  IF output = <<>>
             THEN { FilenamesOutcome(TRUE, fs, ds, input_file, results, "none") }
             ELSE IF output[1].dir \notin ds
             THEN { FilenamesOutcome(FALSE, fs, ds, input_file, results, "failed") }
             ELSE { LET w == WriteText(fs, output[1], report, wmode, cut)
                    IN  FilenamesOutcome(w.written, w.disk, ds, input_file, results,
                                         IF w.written THEN "done" ELSE "failed") :
                        report \in generate_report(results) }

(***************************************************************************)
(* The exit status of the command-line drivers                             *)
(***************************************************************************)
\* generate_missing_media_list.py and manage_files.py: main() drops the
\* result of the call and returns None, the process exits with status 0
script_exit_code(result) == 0

\* media_manager_gui.py main(): return 0 if success else 1;
\* windows_filename_validator.py main(): return 1 in the except clause, else 0
main_exit_code(success) == IF success THEN 0 ELSE 1

\* the exit status of the process that ran an operation: <<status>>, or <<>>
\* for a button of the GUI
ExitCode(variant, ok) ==
    CASE variant = "script" -> <<script_exit_code(ok)>>
      [] variant \in {"headless", "validator"} -> <<main_exit_code(ok)>>
      [] OTHER -> <<>>

(***************************************************************************)
(* media_manager_gui.py: retention over the three categories               *)
(***************************************************************************)
\* sum of the deleted counts of the runs that returned no error
RECURSIVE TotalDeleted(_)
TotalDeleted(runs) ==
    IF runs = <<>> THEN 0
    ELSE (IF Head(runs).err THEN 0 ELSE Head(runs).deleted) + TotalDeleted(Tail(runs))

\* run_headless_manage_files: manage_files(subdir_path, retention_count) for
\* every subdir that exists; listings[subdir] is the sorted listing it gets
run_headless_manage_files(ds, retention_count, listings, failing) ==
    LET existing == SelectSeq(Subdirs, LAMBDA subdir : subdir \in ds)
        runs == [i \in 1..Len(existing) |->
                    manage_files(ds, existing[i], retention_count, PatTxt,
                                 listings[existing[i]], failing)]
    IN  [ok |-> TRUE, runs |-> runs, total_deleted |-> TotalDeleted(runs)]

\* MediaManagerGUI.manage_files: the body of its loop for one existing subdir
gui_manage_subdir(subdir, retention_count, listing, failing) ==
    LET files_to_delete ==
            IF Len(listing) > retention_count
            THEN PySliceFrom(listing, retention_count)
            ELSE <<>>
        loop == DeleteLoop(files_to_delete, failing,
                           [attempted |-> <<>>, deleted |-> 0, removed |-> {}])
    IN  [dir |-> subdir, keep |-> retention_count, pattern |-> PatTxt,
         listing |-> listing, failing |-> failing,
         attempted |-> loop.attempted, removed |-> loop.removed,
         deleted |-> loop.deleted, err |-> FALSE]

\* MediaManagerGUI.manage_files
gui_manage_files(ds, retention_count, listings, failing) ==
    LET existing == SelectSeq(Subdirs, LAMBDA subdir : subdir \in ds)
        runs == [i \in 1..Len(existing) |->
                    gui_manage_subdir(existing[i], retention_count,
                                      listings[existing[i]], failing)]
    IN  [ok |-> TRUE, runs |-> runs, total_deleted |-> TotalDeleted(runs)]

(***************************************************************************)
(* media_manager_gui.py: the headless complete check                       *)
(***************************************************************************)
\* run_headless_generate_media_list(config, log_function) run at the second
\* now: its return value and the output directory it leaves
run_headless_generate_media_list(fs, ds, directories, present, all_extensions, now) ==
    IF directories = <<>>
    THEN [ok |-> FALSE, disk |-> fs, cat_dirs |-> ds, file |-> None]
    ELSE LET output_file ==
                 [dir |-> "media_lists", prefix |-> "media_list", stamp |-> now,
                  ext |-> "txt", mtime |-> now,
                  content |-> generate_media_list(directories, present, all_extensions)]
         IN  [ok |-> TRUE, disk |-> WriteFile(fs, output_file),
              cat_dirs |-> ds \cup {"media_lists"}, file |-> output_file]

RemovedBy(runs) == UNION {runs[i].removed : i \in 1..Len(runs)}

\* the sorted listings of '*.txt' that manage_files may get in the subdirs
ListingsOn(fs) ==
    { [media_lists |-> l1, missing_media |-> l2, filename_issues |-> l3] :
        l1 \in SortedByMtime(Glob(fs, "media_lists", PatTxt)),
        l2 \in SortedByMtime(Glob(fs, "missing_media", PatTxt)),
        l3 \in SortedByMtime(Glob(fs, "filename_issues", PatTxt)) }

\* a stage of the complete check and the value it returned
Stage(name, ok) == [stage |-> name, ok |-> ok]

\* the result of a complete check: its return value, the output directory it
\* leaves, the stages it ran in order, the file the first stage wrote, the
\* files the second stage compared, the file the fourth stage analyzed
CompleteOutcome(ok, fs, ds, stages, generated, pair, analyzed) ==
    [ok |-> ok, disk |-> fs, cat_dirs |-> ds, stages |-> stages,
     generated |-> generated, most_recent |-> pair[1], second |-> pair[2],
     analyzed |-> analyzed]

\* run_headless_complete_check, lines 2496 to 2501, from the result g of its
\* first stage on: success &= stage(config, log_function) for the three later
\* stages; the reports are written at the second later, faults says which
\* writes and deletions fail
LaterStages(g, retention_count, later, faults) ==
    LET missing_file == [dir |-> "missing_media", prefix |-> "missing_media",
                         stamp |-> later, ext |-> "txt", mtime |-> later,
                         content |-> <<>>]
        report_file == [dir |-> "filename_issues", prefix |-> "windows_filename_issues",
                        stamp |-> later, ext |-> "txt", mtime |-> later,
                        content |-> <<>>]
        Checks == { run_headless_check_missing_media(g.disk, g.cat_dirs, listing,
                        missing_file, faults.diff_wmode, 0, FALSE) :
                    listing \in SortedByMtime(Glob(g.disk, "media_lists", PatMediaList)) }
        Prunes(m) == { run_headless_manage_files(m.cat_dirs, retention_count, listings,
                                                 faults.failing \cap m.disk) :
                       listings \in ListingsOn(m.disk) }
        Pruned(m, p) == m.disk \ RemovedBy(p.runs)
        Names(m, p) == UNION { run_headless_check_windows_filenames(Pruned(m, p),
                                   m.cat_dirs, listing, report_file,
                                   faults.names_wmode, 0) :
                               listing \in SortedByMtime(Glob(Pruned(m, p), "media_lists",
                                                              PatMediaList)) }
    IN  UNION { UNION { { CompleteOutcome(
                              ((g.ok /\ m.ok) /\ p.ok) /\ f.ok, f.disk, f.cat_dirs,
                              << Stage("generate-media-list", g.ok),
                                 Stage("check-missing-media", m.ok),
                                 Stage("manage-file-retention", p.ok),
                                 Stage("check-windows-filenames", f.ok) >>,
                              g.file, <<m.most_recent, m.second>>, f.analyzed) :
                          f \in Names(m, p) } :
                      p \in Prunes(m) } :
                m \in Checks }

\* success = success and stage(config, log_function): no stage runs after
\* one that failed
run_headless_complete_check_ShortCircuit(fs, ds, directories, present, all_extensions, retention_count, now, later, faults) ==
    LET g == run_headless_generate_media_list(fs, ds, directories, present,
                                              all_extensions, now)
    IN  IF g.ok
        THEN LaterStages(g, retention_count, later, faults)
        ELSE { CompleteOutcome(FALSE, g.disk, g.cat_dirs,
                               << Stage("generate-media-list", FALSE) >>,
                               None, <<None, None>>, None) }

\* run_headless_complete_check(config, log_function): the results it may have
run_headless_complete_check(fs, ds, directories, present, all_extensions, retention_count, now, later, faults) ==
    LaterStages(run_headless_generate_media_list(fs, ds, directories, present,
                                                 all_extensions, now),
                retention_count, later, faults)

(***************************************************************************)
(* media_manager_gui.py: the worker threads of the buttons                 *)
(***************************************************************************)
\* the methods a worker thread runs
Operations ==
    {"generate_media_list", "check_missing_media", "manage_files",
     "check_windows_filenames"}

\* the command of each button of the Operations frame: threading.Thread(
\* target=self.<method>).start(); run_complete_check calls the four methods
\* one after the other
Todo(button) ==
    CASE button = "generate_media_list_threaded" -> <<"generate_media_list">>
      [] button = "check_missing_media_threaded" -> <<"check_missing_media">>
      [] button = "manage_files_threaded" -> <<"manage_files">>
      [] button = "check_windows_filenames_threaded" -> <<"check_windows_filenames">>
      [] OTHER -> <<"generate_media_list", "check_missing_media", "manage_files",
                    "check_windows_filenames">>

Buttons ==
    {"generate_media_list_threaded", "check_missing_media_threaded",
     "manage_files_threaded", "check_windows_filenames_threaded",
     "run_complete_check_threaded"}

\* a thread that is not alive
Idle == [todo |-> <<>>, pc |-> "idle", subdir |-> 1, listing |-> {}, files |-> <<>>]

NoThreads == [t \in 1..MaxThreads |-> Idle]

\* a thread whose method has returned: the next method of run_complete_check
\* starts, or the thread ends
EndOperation(w) ==
    IF Len(w.todo) <= 1 THEN Idle
    ELSE [Idle EXCEPT !.todo = Tail(w.todo), !.pc = "start"]

\* os.path.exists of the path of f
Exists(fs, f) == \E g \in fs : SameName(g, f)

\* the file that has the path of f now
Current(fs, f) == CHOOSE g \in fs : SameName(g, f)

\* MediaManagerGUI.check_windows_filenames from the sorted listing on, lines
\* 2072 to 2092: the statements of run_headless_check_windows_filenames
check_windows_filenames(fs, ds, listing, report_file, wmode, cut) ==
    run_headless_check_windows_filenames(fs, ds, listing, report_file, wmode, cut)

(***************************************************************************)
(* State machine                                                           *)
(***************************************************************************)
PathA == PathJoin(DirM, FileA)

PathB == PathJoin(DirS, FileB)

PathC == PathJoin(DirH, FileC)

PathD == PathJoin(DirG, FileD)

PathN == PathJoin(DirM, FileN)

\* the media trees scanned: every file present, only one visible media file
\* next to the hidden ones, no media file in the top directory, no file
ScanTrees == { MediaUniverse, {PathA, PathC, PathD}, {PathB, PathN}, {} }

File(dir, prefix, stamp, ext, mtime, content) ==
    [dir |-> dir, prefix |-> prefix, stamp |-> stamp, ext |-> ext,
     mtime |-> mtime, content |-> content]

\* an output directory that was used before: two snapshots with the same
\* modification time, a file that is no snapshot, two old reports
UsedDisk ==
    { File("media_lists", "media_list", -2, "txt", -1, WriteLines(<<PathA, PathB>>)),
      File("media_lists", "media_list", -1, "txt", -1, WriteLines(<<PathA>>)),
      File("media_lists", "readme", 0, "md", 0, <<>>),
      File("missing_media", "missing_media", -1, "txt", -1, WriteLines(<<PathB>>)),
      File("filename_issues", "windows_filename_issues", -1, "txt", -1, <<>>) }

\* a fresh output directory, or one that was used before
Init ==
    /\ clock = 0
    /\ threads = NoThreads
    /\ \/ cat_dirs = {} /\ disk = {}
       \/ cat_dirs = Categories /\ disk = UsedDisk
    /\ last = [op |-> "none"]

\* datetime.datetime.now(): the second at which an operation runs
Now == clock .. Min(clock + 1, MaxClock)

\* the sets of files whose deletion may fail: none, one or two of S
FailingSets(S) == {{}} \cup {{f, g} : f \in S, g \in S}

WriteModes == {"ok", "mkdir_fail", "open_fail", "write_fail"}

\* run_headless_generate_media_list(config, log_function), the configured
\* scan_directories drawn from roots, the media tree's files from trees and
\* the configured extensions from extension_lists; overwrites says whether
\* a file of the output file's name was there before
HeadlessGenerateMediaList(roots, trees, extension_lists) ==
    \E directories \in roots, present \in trees, now \in Now,
       all_extensions \in extension_lists :
        IF directories = <<>>
        THEN /\ last' = [op |-> "generate", ok |-> FALSE, file |-> None,
                         directories |-> directories, present |-> present,
                         extensions |-> all_extensions, entries |-> <<>>,
                         overwrites |-> FALSE,
                         exit_code |-> ExitCode("headless", FALSE)]
             /\ UNCHANGED <<clock, cat_dirs, disk, threads>>
        ELSE LET output_file ==
                     File("media_lists", "media_list", now, "txt", now,
                          generate_media_list(directories, present, all_extensions))
             IN  /\ clock' = now
                 /\ cat_dirs' = cat_dirs \cup {"media_lists"}
                 /\ disk' = WriteFile(disk, output_file)
                 /\ UNCHANGED threads
                 /\ last' = [op |-> "generate", ok |-> TRUE, file |-> output_file,
                             directories |-> directories, present |-> present,
                             extensions |-> all_extensions,
                             entries |-> ScanMediaFiles(directories, present,
                                                        all_extensions),
                             overwrites |-> ReadBack(disk, output_file) # <<>>,
                             exit_code |-> ExitCode("headless", TRUE)]

CheckMissingDone(variant, now, r) ==
    /\ clock' = now
    /\ cat_dirs' = r.cat_dirs
    /\ disk' = r.disk
    /\ UNCHANGED threads
    /\ last' = [op |-> "check_missing", variant |-> variant, ok |-> r.ok,
                most_recent |-> r.most_recent, second |-> r.second,
                loaded |-> r.loaded, missing |-> r.missing,
                persisted |-> r.persisted, events |-> r.events,
                exit_code |-> ExitCode(variant, r.ok)]

\* generate_missing_media_list.py run on media_lists, its output file in missing_media
ScriptCheckMissing ==
    \E listing \in SortedByMtime(Glob(disk, "media_lists", PatMediaList)),
       now \in Now, wmode \in WriteModes, cut \in 0..1 :
        CheckMissingDone("script", now,
            generate_missing_media_list(disk, cat_dirs, listing,
                File("missing_media", "missing_media", now, "txt", now, <<>>),
                wmode, cut))

\* the "Check Missing Media" button
GuiCheckMissing ==
    \E listing \in SortedByMtime(Glob(disk, "media_lists", PatMediaList)),
       now \in Now, wmode \in WriteModes, cut \in 0..1, email_configured \in BOOLEAN :
        CheckMissingDone("gui", now,
            check_missing_media(disk, cat_dirs, listing,
                File("missing_media", "missing_media", now, "txt", now, <<>>),
                wmode, cut, email_configured))

\* --automated-check-missing-media
HeadlessCheckMissing ==
    \E listing \in SortedByMtime(Glob(disk, "media_lists", PatMediaList)),
       now \in Now, wmode \in WriteModes, cut \in 0..1, email_enabled \in BOOLEAN :
        CheckMissingDone("headless", now,
            run_headless_check_missing_media(disk, cat_dirs, listing,
                File("missing_media", "missing_media", now, "txt", now, <<>>),
                wmode, cut, email_enabled))

\* paths whose file name holds a line boundary, or ends with a space
PathLF == PathJoin(DirM, <<"a", NL, "b">>)

PathCR == PathJoin(DirM, <<"a", CR, "b">>)

PathFF == PathJoin(DirM, <<"a", FF, "b">>)

PathSp == PathJoin(DirM, <<"a", " ">>)

\* the media_files lists saved: no path, one path, PathA and another path in
\* both orders
SnapshotLists ==
    LET paths == {PathA, PathB, PathLF, PathCR, PathFF, PathSp}
    IN  {<<>>} \cup {<<p>> : p \in paths}
        \cup {<<PathA, p>> : p \in paths \ {PathA}}
        \cup {<<p, PathA>> : p \in paths \ {PathA}}

\* generate_media_list, lines 49-51, for the media_files its walk collected,
\* called with the output file of run_headless_generate_media_list
SaveMediaList ==
    \E media_files \in SnapshotLists, now \in Now :
        LET output_file == File("media_lists", "media_list", now, "txt", now,
                                WriteLines(media_files))
        IN  /\ clock' = now
            /\ cat_dirs' = cat_dirs \cup {"media_lists"}
            /\ disk' = WriteFile(disk, output_file)
            /\ UNCHANGED threads
            /\ last' = [op |-> "save", entries |-> media_files, file |-> output_file]

\* a snapshot file is loaded by the loader of the diff and by the loader of
\* the validator; written is the list saved by the step before, if that step
\* saved this file
LoadMediaList ==
    \E file \in Glob(disk, "media_lists", PatMediaList) :
        /\ last' = [op |-> "load", file |-> file,
                    titles |-> load_titles_from_file(file),
                    file_list |-> file_list_of(file),
                    written |-> IF last.op = "save" /\ last.file = file
                                THEN <<last.entries>> ELSE <<>>]
        /\ UNCHANGED <<clock, cat_dirs, disk, threads>>

\* snapshot files as found on disk: with an empty line, with a line of
\* white space, with a trailing space, with "\r\n" line ends, without a
\* final line end, empty
SnapshotTexts ==
    { WriteLines(<<PathA, PathB>>),
      WriteLines(<<PathA, <<>>, PathB>>),
      WriteLines(<<PathA, <<" ">> >>),
      WriteLines(<<PathSp>>),
      PathA \o <<CR, NL>> \o PathB \o <<CR, NL>>,
      PathA \o <<NL>> \o PathB,
      <<>> }

\* an output directory that holds two snapshot files of any of these texts
InitLoad ==
    /\ clock = 0
    /\ threads = NoThreads
    /\ cat_dirs = {"media_lists"}
    /\ \E older \in SnapshotTexts, newer \in SnapshotTexts :
           disk = { File("media_lists", "media_list", -2, "txt", -2, older),
                    File("media_lists", "media_list", -1, "txt", -1, newer) }
    /\ last = [op |-> "none"]

\* the characters of the enumerated file names: a letter, an underscore, a
\* period, a space, an invalid character, a control character
NameChars == {"a", "_", ".", " ", "?", TAB}

\* every str over chars of length n
RECURSIVE StrsOfLen(_, _)
StrsOfLen(chars, n) ==
    IF n = 0 THEN {<<>>}
    ELSE {Append(t, c) : t \in StrsOfLen(chars, n - 1), c \in chars}

\* every file name over NameChars of length 0 to MaxNameLen
EnumeratedNames == UNION {StrsOfLen(NameChars, n) : n \in 0..MaxNameLen}

\* the reserved names in upper and in lower case, CON in mixed case
ReservedSpellings ==
    RESERVED_NAMES \cup {Lower(r) : r \in RESERVED_NAMES} \cup {<<"C", "o", "n">>}

\* n times the letter a
LongName(n) == [i \in 1..n |-> "a"]

\* names around a reserved name, the names of the spec's literal cases, a
\* name that is no device name, names of about MAX_FILENAME_LENGTH characters,
\* names whose part after the last period has about MAX_FILENAME_LENGTH
\* characters
SpecialNames ==
    { <<"_", "C", "O", "N">>, <<"C", "O", "N", "_">>, <<"C", "O", "N", " ">>, <<"C", "O", "N", ".", "t", "a", "r">>,
      <<"m", "o", "v", "i", "e", " ">>, <<"a", ":", "b", "?", "c">>, <<"C", "O", "M", "0">>,
      <<"m", "o", "v", "i", "e", ".", "m", "p", "4", " ">>, <<"f", "i", "l", "e", ".">>,
      LongName(MAX_FILENAME_LENGTH - 4), LongName(MAX_FILENAME_LENGTH - 3),
      LongName(MAX_FILENAME_LENGTH + 1),
      <<"a", "a", ".">> \o LongName(MAX_FILENAME_LENGTH - 1),
      <<"a", "a", ".">> \o LongName(MAX_FILENAME_LENGTH),
      LongName(8) \o <<".">> \o LongName(MAX_FILENAME_LENGTH + 2) }

\* the extensions appended: none, of a media file in either case, a lone
\* period, with an invalid character, with a double underscore
ValidatorExts ==
    { <<>>, <<".", "m", "p", "4">>, <<".", "M", "K", "V">>, <<".">>, <<".", "m", "?", "4">>, <<".", "a", "_", "_", "b">> }

\* the directories prepended: none, the spec's literal one, one whose name
\* ends with a space
ValidatorDirs == { <<>>, <<"C", ":", "/", "m", "e", "d", "i", "a", "/">>, <<"/", "m", " ", "/">> }

ValidatorPaths ==
    { d \o n \o e : d \in ValidatorDirs,
                     n \in EnumeratedNames \cup ReservedSpellings \cup SpecialNames,
                     e \in ValidatorExts }

\* a path is given to the validator
InitValidate ==
    /\ clock = 0
    /\ threads = NoThreads
    /\ cat_dirs = {}
    /\ disk = {}
    /\ \E filepath \in ValidatorPaths : last = [op |-> "input", filepath |-> filepath]

\* validate_filename and suggest_filename_fix on the path, as
\* FilenameFixDialog.populate_fixes pairs them; reassembled and truncated are
\* the values of filename before and after the truncation step
ValidateFilename ==
    /\ last.op = "input"
    /\ last' = [op |-> "validate", filepath |-> last.filepath,
                issues |-> validate_filename(last.filepath),
                reassembled |-> Reassembled(last.filepath),
                truncated |-> Truncate(Reassembled(last.filepath)),
                fix |-> suggest_filename_fix(last.filepath)]
    /\ UNCHANGED <<clock, cat_dirs, disk, threads>>

\* os.path.dirname(p) with its trailing separator
DirOf(p) == SubSeq(p, 1, LastIndexOf(p, "/"))

\* suggest_filename_fix on the suggested file name in the same directory
SuggestAgain ==
    /\ last.op = "validate"
    /\ last.fix # <<>>
    /\ last' = [op |-> "suggest_again", filepath |-> last.filepath,
                first |-> last.fix[1],
                second |-> suggest_filename_fix(DirOf(last.filepath) \o last.fix[1])]
    /\ UNCHANGED <<clock, cat_dirs, disk, threads>>

\* paths of a snapshot given to the validator: with an invalid character,
\* with a space before the extension, with two invalid characters
PathQ == PathJoin(DirM, <<"b", "?", ".", "m", "p", "4">>)

PathT == PathJoin(DirM, <<"a", " ", ".", "m", "p", "4">>)

PathZ == PathJoin(DirM, <<"c", ":", "?">>)

\* every list of length n over paths
RECURSIVE ListsOfLen(_, _)
ListsOfLen(paths, n) ==
    IF n = 0 THEN {<<>>}
    ELSE {Append(l, p) : l \in ListsOfLen(paths, n - 1), p \in paths}

\* the file lists validated: up to three paths, in every order, with repeats
ReportFileLists == UNION {ListsOfLen({PathA, PathQ, PathT, PathZ}, n) : n \in 0..3}

\* a file list is given to the validator
InitReport ==
    /\ clock = 0
    /\ threads = NoThreads
    /\ cat_dirs = {}
    /\ disk = {}
    /\ \E file_list \in ReportFileLists : last = [op |-> "file_list", file_list |-> file_list]

\* results = validator.validate_file_list(file_list);
\* report = validator.generate_report(results)
GenerateReport ==
    /\ last.op = "file_list"
    /\ \E report \in generate_report(validate_file_list(last.file_list)) :
           last' = [op |-> "report", file_list |-> last.file_list,
                    results |-> validate_file_list(last.file_list),
                    report |-> report]
    /\ UNCHANGED <<clock, cat_dirs, disk, threads>>

\* output directories as found by the check operations: fresh; two snapshots
\* without a flagged path, the older one holding a path more; two snapshots
\* of the same paths, two of them flagged and in descending order; one
\* snapshot without a flagged path; two empty snapshots
CheckDisks ==
    LET flagged == WriteLines(<<PathT, PathQ, PathA>>)
        Older(text) == File("media_lists", "media_list", -2, "txt", -2, text)
        Newer(text) == File("media_lists", "media_list", -1, "txt", -1, text)
    IN  { [cat_dirs |-> {}, disk |-> {}],
          [cat_dirs |-> {"media_lists"},
           disk |-> {Older(WriteLines(<<PathA, PathB>>)), Newer(WriteLines(<<PathA>>))}],
          [cat_dirs |-> Categories, disk |-> {Older(flagged), Newer(flagged)}],
          [cat_dirs |-> Categories, disk |-> {Newer(WriteLines(<<PathA>>))}],
          [cat_dirs |-> {"media_lists"}, disk |-> {Older(<<>>), Newer(<<>>)}] }

InitCheck ==
    /\ clock = 0
    /\ threads = NoThreads
    /\ \E d \in CheckDisks : cat_dirs = d.cat_dirs /\ disk = d.disk
    /\ last = [op |-> "none"]

CheckFilenamesDone(variant, now, r) ==
    /\ clock' = now
    /\ cat_dirs' = r.cat_dirs
    /\ disk' = r.disk
    /\ UNCHANGED threads
    /\ last' = [op |-> "check_filenames", variant |-> variant, ok |-> r.ok,
                analyzed |-> r.analyzed, results |-> r.results,
                written |-> r.written, exit_code |-> ExitCode(variant, r.ok)]

\* --automated-check-windows-filenames
HeadlessCheckFilenames ==
    \E listing \in SortedByMtime(Glob(disk, "media_lists", PatMediaList)),
       now \in Now, wmode \in WriteModes, cut \in 0..1 :
        \E r \in run_headless_check_windows_filenames(disk, cat_dirs, listing,
                   File("filename_issues", "windows_filename_issues", now, "txt", now, <<>>),
                   wmode, cut) :
            CheckFilenamesDone("headless", now, r)

\* windows_filename_validator.py run on a snapshot of media_lists or on a
\* path that does not exist, without -o or with an output file in
\* filename_issues
ValidatorMain ==
    \E input_file \in Glob(disk, "media_lists", PatMediaList) \cup {None},
       now \in Now, wmode \in WriteModes \ {"mkdir_fail"}, cut \in 0..1 :
        \E output \in { <<>>, <<File("filename_issues", "windows_filename_issues",
                                      now, "txt", now, <<>>)>> } :
            \E r \in validator_main(disk, cat_dirs, input_file, output, wmode, cut) :
                CheckFilenamesDone("validator", now, r)

\* validate_filename on the suggested file name in the same directory
ValidateSuggestion ==
    /\ last.op = "validate"
    /\ last.fix # <<>>
    /\ last' = [op |-> "validate_fix", filepath |-> last.filepath,
                fix |-> last.fix[1],
                issues |-> validate_filename(DirOf(last.filepath) \o last.fix[1])]
    /\ UNCHANGED <<clock, cat_dirs, disk, threads>>

ManageDone(variant, r) ==
    /\ disk' = disk \ RemovedBy(r.runs)
    /\ last' = [op |-> "manage", variant |-> variant, ok |-> r.ok, runs |-> r.runs,
                total_deleted |-> r.total_deleted,
                exit_code |-> ExitCode(variant, r.ok)]
    /\ UNCHANGED <<clock, cat_dirs, threads>>

\* manage_files.py main(): manage_files(args.directory, args.count, args.pattern)
ScriptManageFiles ==
    \E directory \in Categories, retention_count \in -1..MaxKeep,
       file_pattern \in {PatTxt, PatMediaList} :
        \E listing \in SortedByMtime(Glob(disk, directory, file_pattern)),
           failing \in FailingSets(Glob(disk, directory, file_pattern)) :
            LET run == manage_files(cat_dirs, directory, retention_count,
                                    file_pattern, listing, failing)
            IN  ManageDone("script",
                    [ok |-> TRUE, runs |-> <<run>>, total_deleted |-> run.deleted])

Listings ==
    { [media_lists |-> l1, missing_media |-> l2, filename_issues |-> l3] :
        l1 \in SortedByMtime(Glob(disk, "media_lists", PatTxt)),
        l2 \in SortedByMtime(Glob(disk, "missing_media", PatTxt)),
        l3 \in SortedByMtime(Glob(disk, "filename_issues", PatTxt)) }

\* --automated-manage-file-retention
HeadlessManageFiles ==
    \E retention_count \in -1..MaxKeep, listings \in Listings,
       failing \in FailingSets({f \in disk : GlobMatch(f, PatTxt)}) :
        ManageDone("headless",
            run_headless_manage_files(cat_dirs, retention_count, listings, failing))

\* the "Manage File Retention" button
GuiManageFiles ==
    \E retention_count \in -1..MaxKeep, listings \in Listings,
       failing \in FailingSets({f \in disk : GlobMatch(f, PatTxt)}) :
        ManageDone("gui",
            gui_manage_files(cat_dirs, retention_count, listings, failing))

\* the faults of a complete check: none, the diff report or the filename
\* report cannot be opened, the deletion of every snapshot on disk fails
CompleteFaults ==
    LET NoFault == [diff_wmode |-> "ok", names_wmode |-> "ok", failing |-> {}]
    IN  { NoFault,
          [NoFault EXCEPT !.diff_wmode = "open_fail"],
          [NoFault EXCEPT !.names_wmode = "open_fail"],
          [NoFault EXCEPT !.failing = Glob(disk, "media_lists", PatMediaList)] }

\* an output directory before a complete check: one of CheckDisks, or the
\* one that was used before
InitComplete ==
    /\ clock = 0
    /\ threads = NoThreads
    /\ \E d \in CheckDisks \cup {[cat_dirs |-> Categories, disk |-> UsedDisk]} :
           cat_dirs = d.cat_dirs /\ disk = d.disk
    /\ last = [op |-> "none"]

\* --automated-complete-check with file_retention_count 0, 1 or MaxKeep, run
\* in a later second than the operation before it; before is the number of
\* snapshots in media_lists when it starts
HeadlessCompleteCheck ==
    \E directories \in {<<>>, <<DirM>>}, present \in {{PathA, PathB}, {PathA}},
       retention_count \in {0, 1, MaxKeep}, now \in Now \ {clock},
       faults \in CompleteFaults :
        \E r \in run_headless_complete_check(disk, cat_dirs, directories, present,
                       DefaultExtensions, retention_count, now, now, faults) :
            /\ clock' = now
            /\ cat_dirs' = r.cat_dirs
            /\ disk' = r.disk
            /\ UNCHANGED threads
            /\ last' = [op |-> "complete_check", ok |-> r.ok, stages |-> r.stages,
                        before |-> Cardinality(Glob(disk, "media_lists", PatMediaList)),
                        retention_count |-> retention_count,
                        failing |-> faults.failing # {},
                        generated |-> r.generated,
                        most_recent |-> r.most_recent, second |-> r.second,
                        analyzed |-> r.analyzed,
                        exit_code |-> ExitCode("headless", r.ok)]

\* the GUI with an output directory that holds two snapshots
InitGui ==
    /\ clock = 0
    /\ threads = NoThreads
    /\ cat_dirs = {"media_lists"}
    /\ disk = { File("media_lists", "media_list", -2, "txt", -2, WriteLines(<<PathA, PathB>>)),
                File("media_lists", "media_list", -1, "txt", -1, WriteLines(<<PathA>>)) }
    /\ last = [op |-> "none"]

\* what a step of a thread did: error says which call raised
ThreadStep(t, step, operation, error) ==
    [op |-> "thread", thread |-> t, step |-> step, operation |-> operation,
     error |-> error]

\* a button is clicked: its command starts a thread, whatever the threads
\* alive are doing
ClickButton ==
    \E button \in Buttons, t \in 1..MaxThreads :
        /\ threads[t].pc = "idle"
        /\ \A u \in 1..(t - 1) : threads[u].pc # "idle"
        /\ threads' = [threads EXCEPT ![t] = [Idle EXCEPT !.todo = Todo(button),
                                                          !.pc = "start"]]
        /\ last' = ThreadStep(t, "click", button, "none")
        /\ UNCHANGED <<clock, cat_dirs, disk>>

\* MediaManagerGUI.generate_media_list in a thread
ThreadGenerate ==
    \E t \in 1..MaxThreads, directories \in {<<>>, <<DirM>>},
       present \in {{PathA}}, now \in Now :
        LET w == threads[t]
            output_file == File("media_lists", "media_list", now, "txt", now,
                               generate_media_list(directories, present,
                                                   DefaultExtensions))
        IN  /\ w.pc = "start"
            /\ Head(w.todo) = "generate_media_list"
            /\ threads' = [threads EXCEPT ![t] = EndOperation(w)]
            /\ last' = ThreadStep(t, "finish", Head(w.todo), "none")
            /\ IF directories = <<>>
               THEN UNCHANGED <<clock, cat_dirs, disk>>
               ELSE /\ clock' = now
                    /\ cat_dirs' = cat_dirs \cup {"media_lists"}
                    /\ disk' = WriteFile(disk, output_file)

\* glob.glob(pattern) of a thread: the listing of media_lists for the two
\* checks, of the next subdir that exists for manage_files
ThreadGlob ==
    \E t \in 1..MaxThreads :
        LET w == threads[t]
            subdir == Subdirs[w.subdir]
        IN  /\ w.pc = "start"
            /\ Head(w.todo) # "generate_media_list"
            /\ threads' =
                   [threads EXCEPT ![t] =
                       IF Head(w.todo) # "manage_files"
                       THEN [w EXCEPT !.pc = "listed",
                                      !.listing = Glob(disk, "media_lists", PatMediaList)]
                       ELSE IF subdir \in cat_dirs
                       THEN [w EXCEPT !.pc = "listed",
                                      !.listing = Glob(disk, subdir, PatTxt)]
                       ELSE IF w.subdir < Len(Subdirs)
                       THEN [w EXCEPT !.subdir = w.subdir + 1]
                       ELSE EndOperation(w)]
            /\ last' = ThreadStep(t, "glob", Head(w.todo), "none")
            /\ UNCHANGED <<clock, cat_dirs, disk>>

\* sorted(..., key=os.path.getmtime, reverse=True) of a thread:
\* os.path.getmtime raises for a listed file that is gone, the except clause
\* of the method logs the error and the method returns
ThreadSort ==
    \E t \in 1..MaxThreads :
        LET w == threads[t]
        IN  /\ w.pc = "listed"
            /\ UNCHANGED <<clock, cat_dirs, disk>>
            /\ IF \E f \in w.listing : ~Exists(disk, f)
               THEN /\ threads' = [threads EXCEPT ![t] = EndOperation(w)]
                    /\ last' = ThreadStep(t, "sort", Head(w.todo), "getmtime")
               ELSE \E files \in SortedByMtime({Current(disk, f) : f \in w.listing}) :
                        /\ threads' = [threads EXCEPT ![t] =
                                           [w EXCEPT !.pc = "sorted", !.files = files,
                                                     !.listing = {}]]
                        /\ last' = ThreadStep(t, "sort", Head(w.todo), "none")

\* the rest of the method of a thread, from its sorted listing on: the diff
\* and its report, the deletions in one subdir, the validation and its
\* report; open() raises for a file that is gone and the method returns,
\* os.remove raises for a file that is gone and the loop goes on
ThreadFinish ==
    \E t \in 1..MaxThreads, now \in Now, retention_count \in {1} :
        LET w == threads[t]
            operation == Head(w.todo)
            gone == {f \in Range(w.files) : ~Exists(disk, f)}
            files == [i \in 1..Len(w.files) |->
                         IF w.files[i] \in gone THEN w.files[i]
                         ELSE Current(disk, w.files[i])]
            opened == IF operation = "check_missing_media"
                      THEN Range(SubSeq(files, 1, IF Len(files) < 2 THEN 0 ELSE 2))
                      ELSE Range(SubSeq(files, 1, 1))
        IN  /\ w.pc = "sorted"
            /\ CASE operation = "manage_files" ->
                     LET run == gui_manage_subdir(Subdirs[w.subdir], retention_count,
                                                  files, gone)
                     IN  /\ disk' = disk \ run.removed
                         /\ threads' = [threads EXCEPT ![t] =
                                            IF w.subdir < Len(Subdirs)
                                            THEN [Idle EXCEPT !.todo = w.todo,
                                                              !.pc = "start",
                                                              !.subdir = w.subdir + 1]
                                            ELSE EndOperation(w)]
                         /\ last' = ThreadStep(t, "finish", operation,
                                               IF gone \cap Range(run.attempted) # {}
                                               THEN "remove" ELSE "none")
                         /\ UNCHANGED <<clock, cat_dirs>>
                 [] opened \cap gone # {} ->
                     /\ threads' = [threads EXCEPT ![t] = EndOperation(w)]
                     /\ last' = ThreadStep(t, "finish", operation, "open")
                     /\ UNCHANGED <<clock, cat_dirs, disk>>
                 [] operation = "check_missing_media" /\ opened \cap gone = {} ->
                     LET r == check_missing_media(disk, cat_dirs, files,
                                  File("missing_media", "missing_media", now, "txt",
                                       now, <<>>),
                                  "ok", 0, FALSE)
                     IN  /\ clock' = now
                         /\ cat_dirs' = r.cat_dirs
                         /\ disk' = r.disk
                         /\ threads' = [threads EXCEPT ![t] = EndOperation(w)]
                         /\ last' = ThreadStep(t, "finish", operation, "none")
                 [] OTHER ->
                     \E r \in check_windows_filenames(disk, cat_dirs, files,
                                  File("filename_issues", "windows_filename_issues",
                                       now, "txt", now, <<>>),
                                  "ok", 0) :
                         /\ clock' = now
                         /\ cat_dirs' = r.cat_dirs
                         /\ disk' = r.disk
                         /\ threads' = [threads EXCEPT ![t] = EndOperation(w)]
                         /\ last' = ThreadStep(t, "finish", operation, "none")

\* Scans of every root list with the default extensions
NextScan == HeadlessGenerateMediaList(RootLists, ScanTrees, {DefaultExtensions})

SpecScan == Init /\ [][NextScan]_vars

\* Saves of a changing media tree and the check-missing operations
NextDiff ==
    \/ HeadlessGenerateMediaList({<<DirM>>}, SUBSET {PathA, PathB}, {DefaultExtensions})
    \/ ScriptCheckMissing
    \/ GuiCheckMissing
    \/ HeadlessCheckMissing

SpecDiff == Init /\ [][NextDiff]_vars

\* Saves and prunes
NextPrune ==
    \/ HeadlessGenerateMediaList({<<DirM>>}, {{PathA, PathB}}, {DefaultExtensions})
    \/ ScriptManageFiles
    \/ HeadlessManageFiles
    \/ GuiManageFiles

SpecPrune == Init /\ [][NextPrune]_vars

\* Scans of one root with every configured extension list
NextExt == HeadlessGenerateMediaList({<<DirM>>}, ScanTrees, ExtensionLists)

SpecExt == Init /\ [][NextExt]_vars

\* The validator and the fix suggester on one path
NextValidate ==
    \/ ValidateFilename
    \/ SuggestAgain
    \/ ValidateSuggestion

SpecValidate == InitValidate /\ [][NextValidate]_vars

\* The validator and its report on one file list
NextReport == GenerateReport

SpecReport == InitReport /\ [][NextReport]_vars

\* The check-missing and check-filenames operations on snapshots found on disk
NextCheck ==
    \/ ScriptCheckMissing
    \/ HeadlessCheckMissing
    \/ HeadlessCheckFilenames
    \/ ValidatorMain

SpecCheck == InitCheck /\ [][NextCheck]_vars

\* Complete checks, one after the other
NextComplete == HeadlessCompleteCheck

SpecComplete == InitComplete /\ [][NextComplete]_vars

\* The buttons of the GUI and the steps of the threads they start
NextGui ==
    \/ ClickButton
    \/ ThreadGenerate
    \/ ThreadGlob
    \/ ThreadSort
    \/ ThreadFinish

SpecGui == InitGui /\ [][NextGui]_vars

\* Saves of snapshots and loads of the saved files
NextRoundTrip ==
    \/ SaveMediaList
    \/ LoadMediaList

SpecRoundTrip == Init /\ [][NextRoundTrip]_vars

\* Loads and diffs of snapshot files found on disk
NextLoad ==
    \/ LoadMediaList
    \/ ScriptCheckMissing
    \/ GuiCheckMissing
    \/ HeadlessCheckMissing

SpecLoad == InitLoad /\ [][NextLoad]_vars

(***************************************************************************)
(* Retention: manage_files                                                 *)
(***************************************************************************)
\* the manage_files runs of the operation that led to the current state
ManageRuns ==
    IF last.op = "manage" THEN {last.runs[i] : i \in 1..Len(last.runs)} ELSE {}

\* the files a run found matching before it deleted anything
Matched(r) == Range(r.listing)

\* the files of a run's listing that match in its directory now
Remaining(r) == Glob(disk, r.dir, r.pattern)

\* no os.remove call of the run raised
NoDeletionFailed(r) == Range(r.attempted) \cap r.failing = {}

\* S holds the k most recently modified files of M (all of M if it has fewer)
MostRecentOf(S, M, k) ==
    /\ S \subseteq M
    /\ Cardinality(S) = Min(Cardinality(M), k)
    /\ \A f \in S, g \in M \ S : g.mtime <= f.mtime

DistinctMtimes(M) == \A f, g \in M : f # g => f.mtime # g.mtime

C2_KeptAndDeleted ==
    \A r \in ManageRuns :
        LET n == Cardinality(Matched(r))
            oldest == {f \in Matched(r) :
                         Cardinality({g \in Matched(r) : g.mtime > f.mtime}) >= r.keep}
        IN  (~r.err /\ r.keep >= 0 /\ DistinctMtimes(Matched(r))
                /\ oldest \cap r.failing = {}) =>
                /\ last.variant # "gui" => r.kept = Min(n, r.keep)
                /\ r.deleted = Max(n - r.keep, 0)
                /\ Remaining(r) = Matched(r) \ oldest
                /\ Cardinality(oldest) = Max(n - r.keep, 0)

\* three files of distinct modification times pruned to one by manage_files
C2_Witness ==
    \E r \in ManageRuns :
        /\ last.variant = "script" /\ ~r.err /\ r.keep = 1 /\ r.failing = {}
        /\ DistinctMtimes(Matched(r)) /\ Cardinality(Matched(r)) = 3
        /\ r.kept = 1 /\ r.deleted = 2

\* C3: a failure to delete one file does not abort the batch: every file
\* ranked after the first K (K >= 0) of the sorted listing is attempted, the
\* returned deleted count is the number of deletions that succeeded, exactly
\* those files are gone, and the error message is None.
C3_FailureDoesNotAbort ==
    \A r \in ManageRuns :
        r.dir \in cat_dirs =>
            /\ ~r.err
            /\ r.deleted = Cardinality(Range(r.attempted) \ r.failing)
            /\ Remaining(r) = Matched(r) \ (Range(r.attempted) \ r.failing)
            /\ r.keep >= 0 =>
                   /\ Range(r.attempted) =
                          {r.listing[i] : i \in (r.keep + 1)..Len(r.listing)}
                   /\ \A f \in Matched(r) \ Range(r.attempted),
                         g \in Range(r.attempted) : g.mtime <= f.mtime

\* a batch whose first deletion fails and whose second succeeds
C3_Witness ==
    \E r \in ManageRuns :
        /\ Len(r.attempted) >= 2
        /\ r.attempted[1] \in r.failing
        /\ r.attempted[2] \notin r.failing
        /\ r.deleted = Len(r.attempted) - 1
        /\ ~r.err

\* C4: manage_files on a directory that does not exist returns (0, 0, error
\* message); on an existing directory without matching files it returns
\* (0, 0, None) (K >= 0); in both cases no file is deleted.
C4_MissingDirDistinguished ==
    \A r \in ManageRuns :
        last.variant = "script" =>
            /\ r.dir \notin cat_dirs =>
                   r.kept = 0 /\ r.deleted = 0 /\ r.err /\ r.removed = {}
            /\ (r.dir \in cat_dirs /\ r.listing = <<>>) =>
                   /\ r.deleted = 0 /\ ~r.err /\ r.removed = {}
                   /\ r.keep >= 0 => r.kept = 0

\* manage_files was called on a directory that does not exist
C4_Witness ==
    \E r \in ManageRuns :
        /\ last.variant = "script" /\ r.dir \notin cat_dirs
        /\ r.err /\ r.kept = 0 /\ r.deleted = 0

(***************************************************************************)
(* Diff: the check-missing operations                                      *)
(***************************************************************************)
Checked == last.op = "check_missing"

\* the snapshot files of media_lists: the files named media_list_<stamp>.txt
Snapshots ==
    {f \in disk : f.dir = "media_lists" /\ f.prefix = "media_list" /\ f.ext = "txt"}

NotifyCalls ==
    IF Checked
    THEN {i \in 1..Len(last.events) : last.events[i].ev = "notify"}
    ELSE {}

PersistCalls ==
    IF Checked
    THEN {i \in 1..Len(last.events) : last.events[i].ev = "persist"}
    ELSE {}

\* C5: find_two_most_recent_media_lists returns (newest, second-newest) of
\* the files matching the pattern by modification time when at least two
\* match, and (None, None) when fewer than two match or the directory is absent.
C5_TwoMostRecent ==
    Checked =>
        IF Cardinality(Snapshots) >= 2 /\ "media_lists" \in cat_dirs
        THEN /\ last.most_recent \in Snapshots
             /\ last.second \in Snapshots \ {last.most_recent}
             /\ \A f \in Snapshots : f.mtime <= last.most_recent.mtime
             /\ \A f \in Snapshots \ {last.most_recent} : f.mtime <= last.second.mtime
        ELSE last.most_recent = None /\ last.second = None

\* the newest two of at least three snapshots, next to a newer file that is no snapshot
C5_Witness ==
    /\ Checked
    /\ Cardinality(Snapshots) >= 3
    /\ last.most_recent.mtime > last.second.mtime
    /\ last.second.mtime > -1
    /\ \E f \in disk : f.dir = "media_lists" /\ f.prefix = "readme"

C7_SameSnapshotsNothingMissing ==
    (Checked /\ last.loaded
        /\ load_titles_from_file(last.second) = load_titles_from_file(last.most_recent)) =>
        /\ last.missing = {}
        /\ last.persisted = "none"
        /\ NotifyCalls = {}
        /\ last.ok

\* C8: when both of the two most recent snapshots are empty the missing set
\* is empty and the operation reports "nothing missing", a success, in the
\* script as in the GUI and headless variants.
C8_BothEmptyIsSuccess ==
    (Checked /\ last.loaded
        /\ load_titles_from_file(last.second) = {}
        /\ load_titles_from_file(last.most_recent) = {}) =>
        /\ last.missing = {}
        /\ last.ok

\* C9: send_missing_media_email is called only with a non-empty missing set
\* and only after the report file of that set was completely written: no
\* notifier call precedes the persist step, and none is made when persisting
\* fails.
C9_NotifyAfterPersist ==
    /\ \A i \in NotifyCalls :
           LET titles == last.events[i].titles
           IN  /\ titles # {}
               /\ titles = last.missing
               /\ \E j \in PersistCalls : j < i /\ last.events[j].titles = titles
               /\ last.events[i].on_disk = <<WriteLines(SortedStrs(titles))>>
    /\ (Checked /\ last.persisted # "done") => NotifyCalls = {}

\* a notification of two missing paths
C9_Witness ==
    /\ NotifyCalls # {}
    /\ last.missing = {PathA, PathB}
    /\ last.persisted = "done"

(***************************************************************************)
(* Scan: the saved snapshot                                                *)
(***************************************************************************)
\* C10: every snapshot file persisted by generate_media_list contains each
\* path at most once, also when a root is listed twice or nested in another.
C10_NoDuplicatePaths ==
    \A f \in Snapshots :
        LET lines == SplitLines(f.content)
        IN  \A i, j \in 1..Len(lines) : lines[i] = lines[j] => i = j

(***************************************************************************)
(* Snapshot store: save and load                                           *)
(***************************************************************************)
\* a load of the file that the step before saved
LoadedAfterSave == last.op = "load" /\ last.written # <<>>

\* no character of the path is a line boundary of str.splitlines()
NoLineBoundary(p) == Range(p) \cap LineBoundaries = {}

\* C11 as stated: for every set of paths written as a snapshot, one path per
\* line, and then loaded by the diff loader, the loaded set equals the written
\* set, whatever the order of the lines.
C11_AsStated ==
    LoadedAfterSave => last.titles = Range(last.written[1])

\* C11 amended: for every set of paths none of which holds a line boundary
\* character, written as a snapshot, one path per line in any order, and then
\* loaded by the diff loader, the loaded set equals the written set.
C11_RoundTrip ==
    (LoadedAfterSave /\ \A p \in Range(last.written[1]) : NoLineBoundary(p)) =>
        last.titles = Range(last.written[1])

\* two paths saved in the order opposite to their sorted order and loaded
C11_Witness ==
    /\ LoadedAfterSave
    /\ last.written[1] = <<PathB, PathA>>
    /\ last.titles = {PathA, PathB}

\* the non-empty lines of a text, split at "\n", white space at the line end
\* trimmed
NonEmptyTrimmedLines(content) ==
    {RStrip(IterLines(content)[i], Whitespace) : i \in 1..Len(IterLines(content))}
        \ {<<>>}

\* C12: loading a snapshot yields exactly the set of its non-empty lines with
\* the white space at the line end trimmed: an empty line never becomes an
\* entry and is never reported as a missing path, and the diff loader and the
\* validator loader yield the same entry set for the same file.
C12_LoadSkipsEmptyLines ==
    /\ last.op = "load" =>
           /\ <<>> \notin last.titles
           /\ last.titles = NonEmptyTrimmedLines(last.file.content)
           /\ last.titles = Range(last.file_list)
    /\ Checked => <<>> \notin last.missing

\* the last operation was a scan that wrote its snapshot
Scanned == last.op = "generate" /\ last.ok

\* the files of media_lists named media_list_<stamp>.txt
SnapshotsOfStamp(stamp) == {f \in Snapshots : f.stamp = stamp}

\* C13: of two saves in media_lists within the same second the second
\* overwrites the first: the category holds exactly one file for that
\* timestamp, its contents are exactly the second save's entries, and neither
\* save fails.
C13_SameSecondOverwrites ==
    (last.op = "generate" /\ last.overwrites) =>
        /\ last.ok
        /\ SnapshotsOfStamp(last.file.stamp) = {last.file}
        /\ \A f \in SnapshotsOfStamp(last.file.stamp) :
               f.content = WriteLines(last.entries)

\* a save of one path over the snapshot saved in the same second before
C13_Witness ==
    /\ last.op = "generate" /\ last.ok
    /\ last.overwrites
    /\ last.entries = <<PathC>>
    /\ last.file.stamp = clock
    /\ SnapshotsOfStamp(clock) = {last.file}

(***************************************************************************)
(* Scan: traversal and matching                                            *)
(***************************************************************************)
\* path lies below root and no directory between root and the file has a
\* name that starts with '.'
BelowWithoutHidden(path, root) ==
    /\ StartsWith(path, root \o <<"/">>)
    /\ LET rel == Split(SubSeq(path, Len(root) + 2, Len(path)), "/")
       IN  \A j \in 1..(Len(rel) - 1) : ~StartsWith(rel[j], <<".">>)

\* C15: generate_media_list never visits the subtree of a directory whose
\* name starts with '.': no path of the result has, below its root, a
\* directory component that begins with '.', at any depth.
C15_HiddenPruned ==
    Scanned =>
        \A k \in 1..Len(last.entries) :
            \E i \in 1..Len(last.directories) :
                BelowWithoutHidden(last.entries[k], last.directories[i])

\* a scan of /m whose hidden directories /m/.h and /m/s/.g hold media files
C15_Witness ==
    /\ Scanned
    /\ last.directories = <<DirM>>
    /\ {PathC, PathD} \subseteq last.present
    /\ last.entries = <<PathA, PathB>>

\* the directories a scan of root visits: root and the directories below it
\* that are reached through names not starting with '.'
RECURSIVE VisitedBelow(_)
VisitedBelow(d) ==
    IF d \notin DOMAIN Tree THEN {}
    ELSE {d} \cup UNION { VisitedBelow(PathJoin(d, Tree[d].dirs[i])) :
                            i \in {j \in 1..Len(Tree[d].dirs) :
                                      Tree[d].dirs[j][1] # "."} }

\* C16: a file in a visited directory is in the scan result if and only if
\* the extension of its name, compared case-insensitively, is a member of the
\* configured extension set, for every letter case of the file name and of
\* the configured extensions ('.MP4' configured matches 'a.mp4').
C16_ExtensionMatch ==
    Scanned =>
        \A i \in 1..Len(last.directories) :
            \A d \in VisitedBelow(last.directories[i]) :
                \A j \in 1..Len(Tree[d].files) :
                    LET file == Tree[d].files[j]
                    IN  PathJoin(d, file) \in last.present =>
                            (PathJoin(d, file) \in Range(last.entries)
                             <=> Lower(splitext(file)[2])
                                     \in {Lower(e) : e \in Range(last.extensions)})

(***************************************************************************)
(* Diff: serialization of the missing set                                  *)
(***************************************************************************)
\* the lines are in strictly ascending order of their code points
Ascending(lines) ==
    \A i \in 1..(Len(lines) - 1) : StrLess(lines[i], lines[i + 1])

\* C14: every serialization of a missing set lists its entries in ascending
\* lexicographic order of the path string, each exactly once: the report
\* written by generate_missing_media_list, by the GUI and by the headless
\* check-missing operation, and the body of the notification.
C14_SortedSerialization ==
    /\ \A i \in PersistCalls :
           /\ last.events[i].on_disk # <<>>
           /\ LET lines == SplitLines(last.events[i].on_disk[1])
              IN  /\ Ascending(lines)
                  /\ Range(lines) = last.missing
                  /\ Len(lines) = Cardinality(last.missing)
    /\ \A i \in NotifyCalls :
           LET lines == last.events[i].body_lines
           IN  /\ Ascending(lines)
               /\ Range(lines) = last.missing
               /\ Len(lines) = Cardinality(last.missing)

\* the GUI wrote the report of two missing paths and sent the notification
C14_Witness ==
    /\ Checked /\ last.variant = "gui"
    /\ last.missing = {PathA, PathB}
    /\ PersistCalls # {} /\ NotifyCalls # {}

(***************************************************************************)
(* Validator and fix suggester                                             *)
(***************************************************************************)
Validated == last.op = "validate"

\* the positions of the issues list that report the rule
Entries(rule) ==
    IF Validated
    THEN {i \in 1..Len(last.issues) : last.issues[i].rule = rule}
    ELSE {}

\* the file name of the validated path and its part before the extension
ValidatedName == basename(last.filepath)

ValidatedStem == splitext(ValidatedName)[1]

EndsWithPeriodOrSpace(t) == t # <<>> /\ t[Len(t)] \in {".", " "}

\* the positions of the '/'-delimited segments of the path that begin or end
\* with white space
PaddedSegments ==
    {k \in 1..Len(Split(last.filepath, "/")) :
        LET part == Split(last.filepath, "/")[k]
        IN  part # <<>> /\ (part[1] \in Whitespace \/ part[Len(part)] \in Whitespace)}

\* exactly one entry reports the rule if its condition holds, none otherwise
ReportedIff(rule, condition) ==
    Cardinality(Entries(rule)) = (IF condition THEN 1 ELSE 0)

\* C17: validate_filename never short-circuits: for every path the issue list
\* holds an entry for each of the seven rules whose condition holds for the
\* path, one entry per white-space-padded path segment, and no entry for a
\* rule whose condition does not hold, whichever other rules fire.
C17_AllRulesEvaluated ==
    Validated =>
        /\ ReportedIff("invalid_chars",
                       \E i \in 1..Len(ValidatedName) : ValidatedName[i] \in INVALID_CHARS)
        /\ ReportedIff("control_chars",
                       \E i \in 1..Len(ValidatedName) : Ord(ValidatedName[i]) < 32)
        /\ ReportedIff("trailing",
                       EndsWithPeriodOrSpace(ValidatedName)
                           \/ EndsWithPeriodOrSpace(ValidatedStem))
        /\ ReportedIff("reserved", Upper(ValidatedStem) \in RESERVED_NAMES)
        /\ ReportedIff("name_too_long", Len(ValidatedName) > MAX_FILENAME_LENGTH)
        /\ ReportedIff("path_too_long", Len(last.filepath) > MAX_PATH_LENGTH)
        /\ Cardinality(Entries("padded_part")) = Cardinality(PaddedSegments)
        /\ \A k \in PaddedSegments :
               \E i \in Entries("padded_part") :
                   last.issues[i].text = Split(last.filepath, "/")[k]
        /\ Len(last.issues) =
               Cardinality(UNION {Entries(rule) :
                   rule \in {"invalid_chars", "control_chars", "trailing", "reserved",
                             "name_too_long", "path_too_long", "padded_part"}})

\* a path on which four rules fire, two of its segments being padded
C17_Witness ==
    /\ Validated
    /\ last.filepath = <<"/", "m", " ", "/", "?", TAB, " ">>
    /\ Len(last.issues) = 5
    /\ Cardinality({last.issues[i].rule : i \in 1..Len(last.issues)}) = 4

\* C18: suggest_filename_fix is idempotent: for every path for which it
\* returns a file name f, applying it to f in the same directory returns None.
C18_SuggestIdempotent ==
    last.op = "suggest_again" => last.second = <<>>

\* C19: a fix proposal exists only for a path with at least one issue: if
\* suggest_filename_fix returns a file name, validate_filename returns a
\* non-empty issue list for that path.
C19_FixOnlyWithIssue ==
    (Validated /\ last.fix # <<>>) => last.issues # <<>>

\* the file name R + '_file' + e
Suffixed(R, e) == R \o <<"_", "f", "i", "l", "e">> \o e

\* validate_filename cites the upper-cased reserved name and
\* suggest_filename_fix returns R + '_file' + e
ReservedHandled(R, e) ==
    /\ \E i \in Entries("reserved") : last.issues[i].text = Upper(R)
    /\ last.fix = <<Suffixed(R, e)>>

\* C20 as stated: for every reserved device name R in any letter case and
\* every extension e, validate_filename on a path whose file name is R + e
\* reports an issue citing the upper-cased reserved name and
\* suggest_filename_fix returns R + '_file' + e.
C20_AsStated ==
    Validated =>
        \A R \in ReservedSpellings, e \in ValidatorExts :
            ValidatedName = R \o e => ReservedHandled(R, e)

\* the later steps of the pipeline leave the extension as it is: it holds no
\* invalid character, no control character and no double underscore, and the
\* suffixed name is not too long
ExtensionKept(R, e) ==
    /\ Range(e) \cap INVALID_CHARS = {}
    /\ \A i \in 1..Len(e) : Ord(e[i]) >= 32
    /\ CollapseUnderscores(e) = e
    /\ Len(Suffixed(R, e)) <= MAX_FILENAME_LENGTH

\* C20 amended: for every reserved device name R in any letter case and every
\* extension e without invalid character, control character and double
\* underscore, R + '_file' + e being at most 255 characters long,
\* validate_filename on a path whose file name is R + e reports an issue
\* citing the upper-cased reserved name and suggest_filename_fix returns
\* R + '_file' + e; for every extension the issue is reported.
C20_ReservedSuffixed ==
    Validated =>
        \A R \in ReservedSpellings, e \in ValidatorExts :
            ValidatedName = R \o e =>
                /\ \E i \in Entries("reserved") : last.issues[i].text = Upper(R)
                /\ ExtensionKept(R, e) => last.fix = <<Suffixed(R, e)>>

\* the spec's literal case in lower case: C:/media/con.mp4 gives con_file.mp4
C20_Witness ==
    /\ Validated
    /\ last.filepath = <<"C", ":", "/", "m", "e", "d", "i", "a", "/", "c", "o", "n", ".", "m", "p", "4">>
    /\ \E i \in Entries("reserved") : last.issues[i].text = <<"C", "O", "N">>
    /\ last.fix = <<<<"c", "o", "n", "_", "f", "i", "l", "e", ".", "m", "p", "4">>>>

\* C21: when the file name reassembled after the reserved-name step is longer
\* than 255 characters, the truncation step shortens only the name part, so
\* that the file name has exactly 255 characters and still ends with the
\* unchanged extension; no file name returned by suggest_filename_fix is longer
\* than 255 characters, for every length of name part and extension.
C21_TruncatedToFit ==
    Validated =>
        /\ Len(last.reassembled) > MAX_FILENAME_LENGTH =>
               /\ Len(last.truncated) = MAX_FILENAME_LENGTH
               /\ EndsWith(last.truncated, splitext(last.reassembled)[2])
               /\ StartsWith(splitext(last.reassembled)[1],
                             SubSeq(last.truncated, 1,
                                    Len(last.truncated)
                                        - Len(splitext(last.reassembled)[2])))
        /\ last.fix # <<>> => Len(last.fix[1]) <= MAX_FILENAME_LENGTH

(***************************************************************************)
(* Validator: the report                                                   *)
(***************************************************************************)
\* the paths of the per-path blocks of a report text, in the order of the text
BlockPaths(report) ==
    LET starts == SelectSeq([i \in 1..Len(report) |-> i],
                            LAMBDA i : report[i] = FileFolder)
    IN  [k \in 1..Len(starts) |->
            LET line_end == CHOOSE j \in (starts[k] + 1)..Len(report) :
                                /\ report[j] = NL
                                /\ \A h \in (starts[k] + 1)..(j - 1) : report[h] # NL
            IN  SubSeq(report, starts[k] + 2, line_end - 1)]

\* C22: generate_report renders the per-path blocks in ascending order of
\* path, whatever the order of the paths in the validated snapshot, so two
\* validation results that hold the same mapping of paths to issues give the
\* same report text.
C22_BlocksSortedByPath ==
    last.op = "report" => Ascending(BlockPaths(last.report))

(***************************************************************************)
(* Command-line drivers                                                    *)
(***************************************************************************)
\* the last step ran an operation as a process
RanAsProcess ==
    /\ last.op \in {"generate", "check_missing", "manage", "check_filenames"}
    /\ last.exit_code # <<>>

\* the operation of the last step failed: it returned False, raised, or
\* manage_files returned an error message
Failed ==
    \/ ~last.ok
    \/ last.op = "manage" /\ \E i \in 1..Len(last.runs) : last.runs[i].err

\* C23: every command-line driver returns exit code 0 when its operation
\* succeeds and a non-zero exit code when it fails: the headless operations of
\* media_manager_gui, main of windows_filename_validator, and main of
\* generate_missing_media_list when fewer than two snapshots exist or the
\* report cannot be written.
C23_ExitCodeTellsSuccess ==
    RanAsProcess => (last.exit_code = <<0>> <=> ~Failed)

(***************************************************************************)
(* Frame of the check operations                                           *)
(***************************************************************************)
\* the files of a category directory, with their contents and modification
\* times
FilesIn(fs, dir) == {f \in fs : f.dir = dir}

\* the files of fs whose name no file of old has
CreatedFiles(old, fs) == {f \in fs : \A g \in old : ~SameName(g, f)}

\* the category a check operation reports into
ReportCategory(op) ==
    IF op = "check_missing" THEN "missing_media" ELSE "filename_issues"

\* C24: the check-missing and check-filenames operations never create,
\* modify, delete or re-order files of media_lists: the snapshot files, their
\* contents and their modification times are the same after the operation as
\* before, and the operation creates at most one new file, in missing_media
\* or filename_issues respectively.
C24_ChecksLeaveSnapshots ==
    [][last'.op \in {"check_missing", "check_filenames"} =>
          /\ FilesIn(disk', "media_lists") = FilesIn(disk, "media_lists")
          /\ Cardinality(CreatedFiles(disk, disk')) <= 1
          /\ \A f \in CreatedFiles(disk, disk') : f.dir = ReportCategory(last'.op)]_vars

\* a check-filenames operation has analyzed a snapshot and saved its report
C24_Witness ==
    /\ last.op = "check_filenames"
    /\ last.written = "done"
    /\ last.analyzed \in FilesIn(disk, "media_lists")
    /\ \E f \in FilesIn(disk, "filename_issues") : f.content # <<>>

(***************************************************************************)
(* Retention: the keep-count                                               *)
(***************************************************************************)
\* C25: for every integer keep-count, zero and negative values included,
\* manage_files returns a kept count >= 0, and when no deletion fails
\* kept + deleted is the number of files that matched before the call and
\* the number of matching files left in the directory is kept.
C25_KeptCountNonNegative ==
    \A r \in ManageRuns :
        last.variant # "gui" =>
            /\ r.kept >= 0
            /\ NoDeletionFailed(r) =>
                   /\ r.kept + r.deleted = Cardinality(Matched(r))
                   /\ Cardinality(Remaining(r)) = r.kept

(***************************************************************************)
(* Fix suggester: the suggested name                                       *)
(***************************************************************************)
\* the rules about the file name alone
FilenameRules ==
    {"invalid_chars", "control_chars", "trailing", "reserved", "name_too_long"}

\* C26: every file name returned by suggest_filename_fix is valid under the
\* rules about the file name: it is not empty and, in the original directory,
\* validate_filename reports for it no invalid-character, control-character,
\* trailing period or space, reserved-name or name-too-long issue.
C26_SuggestionIsValid ==
    last.op = "validate_fix" =>
        /\ last.fix # <<>>
        /\ \A i \in 1..Len(last.issues) : last.issues[i].rule \notin FilenameRules

\* a file name is proposed and it is not the name of the validated path
Proposed == last.fix # <<>> /\ last.fix[1] # ValidatedName

\* C27: every issue about the file name gets a proposal: for every path for
\* which validate_filename reports an invalid-character, control-character,
\* trailing period or space, reserved-name or name-too-long issue,
\* suggest_filename_fix returns a file name different from the original
\* (never None), also when the period or space follows the extension, as in
\* 'movie.mp4 ' and 'file.'.
C27_IssueGetsProposal ==
    (Validated /\ \E i \in 1..Len(last.issues) : last.issues[i].rule \in FilenameRules)
        => Proposed

(***************************************************************************)
(* Retention and the next diff                                             *)
(***************************************************************************)
\* the pairs find_two_most_recent_media_lists(media_lists, 'media_list_*.txt')
\* may return on the files fs, one for each order of equal modification times
PairsOn(fs) ==
    { find_two_most_recent_media_lists(listing) :
          listing \in SortedByMtime(Glob(fs, "media_lists", PatMediaList)) }

\* the pair it returns when glob lists the directory as it did for the run r
PairSeenBy(r) ==
    find_two_most_recent_media_lists(
        SelectSeq(r.listing, LAMBDA f : GlobMatch(f, PatMediaList)))

\* C28: pruning never disturbs the next diff: for every keep-count K >= 2,
\* after any sequence of saves and prunes, when manage_files has pruned
\* media_lists with no deletion failure, find_two_most_recent_media_lists
\* returns the same pair of snapshot files as immediately before the prune:
\* the pair it returned on the directory as the prune listed it is a pair it
\* returns after, every pair it may return after is one it might have
\* returned before, and with pairwise distinct modification times it is the
\* one pair possible before and after.
C28_PruneKeepsDiffPair ==
    \A r \in ManageRuns :
        (r.dir = "media_lists" /\ ~r.err /\ r.keep >= 2 /\ NoDeletionFailed(r)) =>
            LET before == disk \cup r.removed
            IN  /\ PairSeenBy(r) \in PairsOn(disk)
                /\ PairsOn(disk) \subseteq PairsOn(before)
                /\ DistinctMtimes(Glob(before, "media_lists", PatMediaList)) =>
                       /\ PairsOn(before) = {PairSeenBy(r)}
                       /\ PairsOn(disk) = {PairSeenBy(r)}

\* a prune to two files that deleted a snapshot and left the pair of the diff
C28_Witness ==
    \E r \in ManageRuns :
        /\ r.dir = "media_lists" /\ ~r.err /\ r.keep = 2 /\ NoDeletionFailed(r)
        /\ \E f \in r.removed : GlobMatch(f, PatMediaList)
        /\ PairSeenBy(r)[1] # None
        /\ PairSeenBy(r) \in PairsOn(disk)

(***************************************************************************)
(* The headless complete check                                             *)
(***************************************************************************)
Completed == last.op = "complete_check"

\* the operations of run_headless_operation in the order of the complete check
StageOrder ==
    << "generate-media-list", "check-missing-media", "manage-file-retention",
       "check-windows-filenames" >>

\* C29: the headless complete check runs its four stages in the fixed order
\* generate-media-list, check-missing-media, manage-file-retention,
\* check-windows-filenames, runs every later stage even when an earlier stage
\* failed, and returns success if and only if all four stages returned
\* success; the first complete check on an output directory without
\* snapshots (one snapshot exists at diff time) returns failure. The order
\* shows in what the stages see: the diff takes the snapshot just generated
\* as the most recent one, the filename check analyzes a snapshot the prune
\* left, and none if the prune kept none.
C29_CompleteCheckStages ==
    Completed =>
        /\ [i \in 1..Len(last.stages) |-> last.stages[i].stage] = StageOrder
        /\ last.ok <=> \A i \in 1..Len(last.stages) : last.stages[i].ok
        /\ last.before = 0 => (~last.stages[2].ok /\ ~last.ok)
        /\ last.stages[1].ok =>
               /\ last.generated \in disk \/ last.retention_count = 0
               /\ last.most_recent \in {None, last.generated}
               /\ last.before >= 1 => last.most_recent = last.generated
        /\ last.analyzed = None \/ last.analyzed \in disk
        /\ (last.retention_count = 0 /\ ~last.failing) =>
               (last.analyzed = None /\ ~last.stages[4].ok)

\* a complete check whose first stage failed and whose later stages ran and
\* returned success
C29_Witness ==
    /\ Completed
    /\ ~last.stages[1].ok
    /\ Len(last.stages) = 4
    /\ last.stages[2].ok /\ last.stages[3].ok /\ last.stages[4].ok
    /\ last.second # None
    /\ ~last.ok

(***************************************************************************)
(* The GUI as the caller of the core                                       *)
(***************************************************************************)
\* the threads that are alive
Running == {t \in 1..MaxThreads : threads[t].pc # "idle"}

\* the category directories the method a thread is in reads or writes
CategoriesOf(t) ==
    CASE Head(threads[t].todo) = "generate_media_list" -> {"media_lists"}
      [] Head(threads[t].todo) = "check_missing_media" -> {"media_lists", "missing_media"}
      [] Head(threads[t].todo) = "check_windows_filenames" ->
             {"media_lists", "filename_issues"}
      [] OTHER -> Categories

\* C30: the GUI never has two operations running at the same time against
\* the same category directory: while a worker thread started by a button
\* (generate, check missing, manage retention, complete check, check
\* filenames) is in a method, no second worker thread is in a method that
\* reads or writes a category of the first, and no sort of a glob listing
\* finds a listed file deleted before its modification time is looked up.
C30_OneOperationPerCategory ==
    /\ \A t \in Running, u \in Running :
           t # u => CategoriesOf(t) \cap CategoriesOf(u) = {}
    /\ ~(last.op = "thread" /\ last.error = "getmtime")

====
